---- MODULE Spec2Model ----
(***************************************************************************)
(* Epoch-based reclamation (mem/epoch) and the lock-free containers built  *)
(* on it.  Every shared-memory access of the Rust code is one step of the  *)
(* thread that performs it; thread-local work is folded into the step of   *)
(* the shared access that precedes it.                                     *)
(***************************************************************************)
EXTENDS Integers, Sequences, FiniteSets, TLC

(* ------------------------------ bounds --------------------------------- *)
\* number of threads
NThreads == 3
\* number of threads enrolled when the general client starts
NClients == 2
\* number of distinct heap addresses the allocator hands out to stack nodes
MaxNodes == 2
\* number of distinct heap addresses the allocator hands out to queue nodes
MaxQNodes == 3
\* number of values pushed on the Treiber stack in one run
MaxPush == 2
\* the global epoch is not advanced past this value
MaxEpoch == 2
\* number of guards user code of one thread holds at the same time
MaxNest == 1
\* largest budget (Options::items_per_gc) handed to Local::collect
MaxBudget == 2
\* half the width of the epoch word in bits (usize has an even width)
EpochHalfBits == 2
\* Threshold for automatically advancing the epoch (32 in the source,
\* scaled so that the bounded heap can exceed it)
GC_THRESH == 0
\* number of slots of a SegQueue segment (32 in the source, scaled so that
\* a bounded run crosses a segment boundary)
SEG_SIZE == 2
\* number of slots of an SpscQueue segment (64 in the source, scaled so
\* that a bounded run crosses segment boundaries)
SPSC_SEG_SIZE == 2
\* number of values the producer endpoints push in one run
MaxSpscPush == 4
\* largest argument of SpscBufferQueue::new
MaxBufN == 2
\* number of endpoints create_consumer / create_producer make in one run
MaxCreate == 2
\* number of GCControl guards one thread holds at the same time
MaxScopes == 3
\* number of threads that enrol in the participant list
MaxPart == 4
\* number of traversals of the participant list one thread runs
MaxRuns == 1
\* number of addresses the allocator hands out for an EpochState
MaxBoxes == 3
\* number of calls of global::get() one thread makes
MaxCalls == 2
\* number of Bags inserted into the ConcBag
MaxBags == 3
\* number of ConcBag::collect calls one thread makes
MaxCollects == 1
\* number of items in the Local handed to Local::collect
MaxItems == 4
\* number of slots of a SegSpmc segment (256 in the source, scaled so that
\* a bounded run fills a segment)
SPMC_SEG_SIZE == 3
\* number of values the SegSpmc producer pushes
MaxSpmcPush == 4
\* number of try_pop calls of one SegSpmc consumer
MaxPops == 2
\* number of SegSpmc segments
MaxSpmcSegs == 2

Threads == 1..NThreads
Addrs == 1..MaxNodes
QAddrs == (MaxNodes + 1)..(MaxNodes + MaxQNodes)
Heap == Addrs \cup QAddrs
Values == 1..(MaxPush + 1)
Null == 0
EpochBits == 2 * EpochHalfBits
EpochMod == 2 ^ EpochBits
\* no epoch: the node has not been unlinked
NoEpoch == EpochMod
Budgets == 0..MaxBudget
\* addresses of SegQueue segments: never freed, so each is used once
SegAddrs == 1..((MaxPush + 1) \div SEG_SIZE + 1)
\* values sent through the SPSC queues; 0 stands for uninitialised memory
SValues == 1..MaxSpscPush
\* addresses of SpscQueue segments
BlockAddrs == 1..(MaxSpscPush \div SPSC_SEG_SIZE + 1)

VARIABLES
    globalEpoch,   \* EpochState.epoch
    do_global,     \* EpochState.do_global
    gbag,          \* EpochState.garbage : three ConcBags
    epoch,         \* Participant.epoch, per thread
    in_critical,   \* Participant.in_critical, per thread
    garbage,       \* Participant.garbage : garbage::Local, per thread
    pc,            \* position of each thread in its current call
    loc,           \* local variables of the call a thread is in
    guards,        \* number of live Guard values of each thread
    refs,          \* Shared pointers user code holds under its guards
    head,          \* TreiberStack.head
    next,          \* Node.next, per address
    data,          \* Node.data, per address
    alloc,         \* allocator: is the address currently allocated
    gen,           \* allocator: how often the address has been allocated
    dtor,          \* destructor runs on the address since its allocation
    nextVal,       \* next value user code pushes
    pushed,        \* values whose push has taken effect
    popCount,      \* per value, number of pops that returned it
    casWins,       \* per epoch E, number of successful CAS E -> E+1
    staleCas,      \* a pop CAS succeeded on a reallocated head address
    plist,         \* Participants: the enrolled threads, list head first
    shadow,        \* values pushed and not popped by returned calls, newest first
    script,        \* calls each thread of a scripted client still has to make
    qhead,         \* MsQueue.head
    qtail,         \* MsQueue.tail
    qprod,         \* per value, the thread that pushed it on the queue (0: none)
    qlast,         \* per consumer and producer, the last value received
    segq,          \* SegQueue: head and tail
    segs,          \* SegQueue: the segments, by address
    qkind,         \* which SPSC queue the run is about
    spsc,          \* SpscQueue: its fields
    blocks,        \* SpscQueue: the segments, by address
    bufq,          \* SpscBufferQueue: its fields
    bufdata,       \* SpscBufferQueue: the slots of data_block and beyond
    endpoints,     \* number of producer and of consumer endpoints alive
                   \* and made by create_producer / create_consumer
    spc,           \* position of the producer and of the consumer in a call
    sloc,          \* local variables of the producer's and consumer's call
    sent,          \* values of the successful pushes, in order
    recvd,         \* values the consumer endpoints received, in order
    drops,         \* per value, how often its destructor has run
    wild,          \* a destructor ran on memory that holds no value
    try_gc,        \* Participant.try_gc, per thread
    gcscopes,      \* per thread, the GCControl guards alive, innermost last
    participants,  \* Participants: head and writable
    pnodes,        \* ParticipantNode: next and active, per node
    handed,        \* per node, how often it was passed to Guard::unlinked
    pfreed,        \* per node, has its memory been reclaimed
    ppins,         \* per node, the traversals running when it was unlinked
    life,          \* per thread, where it is between enrolment and exit
    iter,          \* per thread, the Iter of its try_collect and its position
    EPOCH,         \* global.rs: static EPOCH, the address of the EpochState
    boxes,         \* per address, is an EpochState allocated there
    gget,          \* per thread, its position and locals in global::get()
    installs,      \* number of compare_and_swap calls that installed EPOCH
    unlinkedIn,    \* per stack node, the global epoch in which pop unlinked it
    cbag,          \* ConcBag: head and the nodes, by address
    cbt,           \* per thread, its position and locals in insert / collect
    cbhist,        \* per Bag, how often it was destroyed; next Bag to insert
    lcase,         \* Local::collect: the Local, the budget and the result
    spmc,          \* SegSpmc: head, tail and the segments
    spmct,         \* per thread, its position and locals in push / try_pop
    spmch          \* SegSpmc: values pushed and values returned, per thread

\* the epoch scheme, the Treiber stack, the MS queue and their clients
coreVars == <<globalEpoch, do_global, gbag, epoch, in_critical, garbage, pc,
              loc, guards, refs, head, next, data, alloc, gen, dtor, nextVal,
              pushed, popCount, casWins, staleCas, plist, shadow, script,
              qhead, qtail, qprod, qlast>>

ebrVars == <<globalEpoch, do_global, gbag, epoch, in_critical, garbage>>
stackVars == <<head, next, data>>
heapVars == <<alloc, gen, dtor>>
histVars == <<nextVal, pushed, popCount, staleCas, shadow, plist>>
msqVars == <<qhead, qtail, qprod, qlast>>
segqVars == <<segq, segs>>
spscVars == <<qkind, spsc, blocks, bufq, bufdata, endpoints, spc, sloc, sent,
              recvd, drops, wild>>
gcVars == <<try_gc, gcscopes>>
\* the state of the containers that do not use the epoch scheme's bags
listVars == <<participants, pnodes, handed, pfreed, ppins, life, iter>>
globVars == <<EPOCH, boxes, gget, installs>>
\* the participant list and the global singleton, modelled on their own
bagVars == <<cbag, cbt, cbhist>>
lcVars == <<lcase>>
spmcVars == <<spmc, spmct, spmch>>
\* ConcBag, Local::collect and SegSpmc, each modelled on its own
unitVars == <<bagVars, lcVars, spmcVars>>
auxVars == <<listVars, globVars, unitVars, unlinkedIn>>
\* all but the units
hostVars == <<coreVars, segqVars, spscVars, gcVars, listVars, globVars, unlinkedIn>>
extVars == <<segqVars, spscVars, gcVars, auxVars>>
vars == <<coreVars, extVars>>

(* ------------------------------ helpers -------------------------------- *)
\* the participant nodes; thread n owns node n
PNodes == 1..MaxPart

\* no traversal: the thread has no Iter
NoIter == [pc |-> "none", at |-> Null, is_first |-> FALSE, was_first |-> FALSE,
           can_write |-> FALSE, cur |-> Null, n |-> Null,
           owed |-> {}, quiet |-> FALSE, runs |-> 0]

\* addresses Box::new(EpochState::new()) can return
BoxAddrs == 1..MaxBoxes

\* the thread is not inside global::get()
NoGet == [pc |-> "out", addr |-> 0, raw |-> 0, ret |-> 0, freed |-> {}, calls |-> 0]

\* addresses of ConcBag nodes and the Bags user code inserts
CbAddrs == 1..MaxBags
Bags == 1..MaxBags

\* memory that holds no ConcBag node
NoCbNode == [data |-> 0, next |-> Null, live |-> FALSE]

\* the thread is in no call on the ConcBag
NoCb == [pc |-> "out", n |-> Null, head |-> Null, during |-> {}, mine |-> {},
         calls |-> 0]

\* no call of Local::collect under study: the Local before and after the
\* call, the budget, the items freed and the value returned
NoCase == [g0 |-> [old |-> <<>>, cur |-> <<>>, new |-> <<>>, pending |-> <<>>],
           g |-> [old |-> <<>>, cur |-> <<>>, new |-> <<>>, pending |-> <<>>],
           budget |-> 0, freed |-> <<>>, ret |-> 0, done |-> TRUE]

NoSpmc == <<>>
NoSpmcCall == <<>>
NoSpmcHist == <<>>

Min(a, b) == IF a < b THEN a ELSE b

wrapping_add(x, y) == (x + y) % EpochMod

wrapping_sub(x, y) == (x - y + EpochMod) % EpochMod

\* Participants::enroll by threads 1..n in turn: each prepends itself
Enrolled(n) == [i \in 1..n |-> n + 1 - i]

InList(t, l) == \E i \in 1..Len(l) : l[i] = t

EmptyLocal == [old |-> <<>>, cur |-> <<>>, new |-> <<>>, pending |-> <<>>]

EmptyConcBag == [items |-> <<>>, nonnull |-> FALSE]

NoLoc == [op |-> "none", cur_epoch |-> 0, idx |-> 0, global_epoch |-> 0,
          local |-> EmptyLocal, n |-> Null, h |-> Null, nx |-> Null, tl |-> Null,
          hgen |-> 0, v |-> 0, ret |-> "none", i |-> 0, low |-> 0,
          before |-> {}]

RECURSIVE SeqSum(_)
SeqSum(w) == IF w = <<>> THEN 0 ELSE Len(Head(w)) + SeqSum(Tail(w))

\* PendingBags::size
PendingSize(w) == SeqSum(w)

\* PendingBags::collect_pending
RECURSIVE collect_pending(_, _, _)
collect_pending(w, budget, freed) ==
    IF budget > 0 /\ w /= <<>>
    THEN LET bag == Head(w)
             to_free == Min(budget, Len(bag))
             rest == SubSeq(bag, to_free + 1, Len(bag))
         IN collect_pending(IF rest /= <<>> THEN <<rest>> \o Tail(w) ELSE Tail(w),
                            budget - to_free,
                            freed \o SubSeq(bag, 1, to_free))
    ELSE [waiting |-> w, budget |-> budget, freed |-> freed]

\* a collect that frees the old bag whatever the budget
Fits_always(g, budget) == TRUE

\* Local::collect: if budget >= self.old.len() + self.pending.size()
Fits(g, budget) == budget >= Len(g.old) + PendingSize(g.pending)

\* Local::collect : rotate the bags, free what the budget allows
LocalCollect(g, budget) ==
    LET fits == Fits(g, budget)
        b1 == IF fits THEN budget - Len(g.old) ELSE budget
        freed1 == IF fits THEN g.old ELSE <<>>
        pend1 == IF fits THEN g.pending ELSE Append(g.pending, g.old)
        cp == collect_pending(pend1, b1, <<>>)
    IN [g |-> [old |-> g.cur, cur |-> g.new, new |-> <<>>, pending |-> cp.waiting],
        freed |-> freed1 \o cp.freed,
        budget |-> cp.budget]

\* Local::size
garbage_size(g) == Len(g.old) + Len(g.cur) + Len(g.new)

\* Local::insert / Participant::reclaim
LocalInsert(g, a) == [g EXCEPT !.new = Append(@, a)]

Occurrences(s, a) == Cardinality({i \in 1..Len(s) : s[i] = a})

\* running the destructor of every item of s
FreedAlloc(al, s) == [a \in Heap |-> IF Occurrences(s, a) > 0 THEN FALSE ELSE al[a]]

FreedDtor(d, s) == [a \in Heap |-> Min(2, d[a] + Occurrences(s, a))]

\* ConcBag::insert
ConcBagInsert(b, bag) == [items |-> bag \o b.items, nonnull |-> TRUE]

\* ConcBag::has_garbage
has_garbage(gb) == \E i \in 0..2 : gb[i].nonnull

\* EpochState::set_garbage_flag
set_garbage_flag(gb, flag) ==
    IF has_garbage(gb) /\ ~flag THEN TRUE
    ELSE IF ~has_garbage(gb) /\ flag THEN FALSE
    ELSE flag

(* ------------------------------- Init ---------------------------------- *)
\* Segment::new of seg_queue.rs: no slot is ready, low = high = 0, no next
SegmentNew ==
    [low |-> 0, high |-> 0, next |-> Null,
     data |-> [k \in 0..(SEG_SIZE - 1) |-> 0],
     ready |-> [k \in 0..(SEG_SIZE - 1) |-> FALSE]]

\* MsQueue::new allocates the sentinel node
Sentinel == MaxNodes + 1

\* Segment::new of spsc_queue.rs: uninitialised slots, null next; live
\* tells whether the address is allocated
SpscSegmentNew ==
    [data |-> [k \in 0..(SPSC_SEG_SIZE - 1) |-> 0], next |-> Null,
     live |-> FALSE]

\* the fields SpscQueue::new sets; the first block has address 1
SpscQueueNew ==
    [head |-> 1, head_block |-> 1, tail_cache |-> 1, prod_alive |-> TRUE,
     tail |-> 1, tail_block |-> 1, cons_alive |-> TRUE]

\* the fields SpscBufferQueue::new(n) sets; cap counts the slots that
\* allocate(n * size_of::<T>()) provides
BufferQueueNew(n) ==
    [cap |-> n, size |-> n + 1, head |-> 0, tail_cache |-> 0,
     prod_alive |-> TRUE, tail |-> 0, head_cache |-> 0, cons_alive |-> TRUE]

\* the frame of a producer or consumer that is in no call
SNoLoc == [op |-> "none", v |-> 0, idx |-> 0, blk |-> 0, ret |-> "none"]

\* no SPSC queue exists
InitNoSpsc ==
    /\ qkind = "none"
    /\ spsc = SpscQueueNew
    /\ blocks = [a \in BlockAddrs |-> SpscSegmentNew]
    /\ bufq = BufferQueueNew(1)
    /\ bufdata = [i \in 0..MaxBufN |-> 0]
    /\ endpoints = [prod |-> 0, cons |-> 0, newprod |-> 0, newcons |-> 0]
    /\ spc = [prod |-> "idle", cons |-> "idle"]
    /\ sloc = [prod |-> SNoLoc, cons |-> SNoLoc]
    /\ sent = <<>>
    /\ recvd = <<>>
    /\ drops = [v \in SValues |-> 0]
    /\ wild = FALSE

\* every thread starts with garbage collection enabled and no GCControl
InitGc ==
    /\ try_gc = [t \in Threads |-> TRUE]
    /\ gcscopes = [t \in Threads |-> <<>>]

\* the epochs after e0 collections that found no garbage, every thread
\* having pinned since the last of them
InitEpochs(e0) ==
    /\ globalEpoch = e0
    /\ epoch = [t \in Threads |-> e0]
    /\ casWins = [e \in 0..(EpochMod - 1) |-> IF e < e0 THEN 1 ELSE 0]

InitHeap ==
    /\ do_global = FALSE
    /\ gbag = [i \in 0..2 |-> EmptyConcBag]
    /\ in_critical = [t \in Threads |-> 0]
    /\ garbage = [t \in Threads |-> EmptyLocal]
    /\ pc = [t \in Threads |-> "idle"]
    /\ loc = [t \in Threads |-> NoLoc]
    /\ guards = [t \in Threads |-> 0]
    /\ refs = [t \in Threads |-> {}]
    /\ head = Null
    /\ next = [a \in Heap |-> Null]
    /\ data = [a \in Heap |-> 0]
    /\ alloc = [a \in Heap |-> a = Sentinel]
    /\ gen = [a \in Heap |-> IF a = Sentinel THEN 1 ELSE 0]
    /\ dtor = [a \in Heap |-> 0]
    /\ qhead = Sentinel
    /\ qtail = Sentinel
    /\ qprod = [v \in Values |-> 0]
    /\ qlast = [t \in Threads |-> [p \in Threads |-> 0]]
    /\ nextVal = 1
    /\ pushed = {}
    /\ popCount = [v \in Values |-> 0]
    /\ unlinkedIn = [a \in Heap |-> NoEpoch]
    /\ staleCas = FALSE
    /\ shadow = <<>>
    /\ segq = [head |-> 1, tail |-> 1]
    /\ segs = [a \in SegAddrs |-> SegmentNew]

\* Participants::new and no thread started
InitList ==
    /\ participants = [head |-> Null, writable |-> FALSE]
    /\ pnodes = [n \in PNodes |-> [next |-> Null, active |-> TRUE]]
    /\ handed = [n \in PNodes |-> 0]
    /\ pfreed = [n \in PNodes |-> FALSE]
    /\ ppins = [n \in PNodes |-> {}]
    /\ life = [n \in PNodes |-> "new"]
    /\ iter = [n \in PNodes |-> NoIter]

\* static EPOCH: AtomicUsize = ATOMIC_USIZE_INIT, no call of get() yet
InitGlobal ==
    /\ EPOCH = 0
    /\ boxes = [a \in BoxAddrs |-> FALSE]
    /\ gget = [t \in Threads |-> NoGet]
    /\ installs = 0

\* ConcBag zeroed: head is null
InitBag ==
    /\ cbag = [head |-> Null, node |-> [a \in CbAddrs |-> NoCbNode]]
    /\ cbt = [t \in Threads |-> NoCb]
    /\ cbhist = [destroyed |-> [b \in Bags |-> 0], nextBag |-> 1]

\* no call of Local::collect under study
InitNoLc == lcase = NoCase

\* no SegSpmc under study
InitNoSpmc ==
    /\ spmc = NoSpmc
    /\ spmct = [t \in Threads |-> NoSpmcCall]
    /\ spmch = NoSpmcHist

InitUnits == InitBag /\ InitNoLc /\ InitNoSpmc

InitCore == InitEpochs(0) /\ InitHeap

\* everything but the epochs
InitOther ==
    /\ InitHeap
    /\ InitNoSpsc
    /\ InitGc
    /\ InitList
    /\ InitGlobal
    /\ InitUnits

InitBase == InitEpochs(0) /\ InitOther

Init ==
    /\ InitBase
    /\ plist = Enrolled(NClients)
    /\ script = [t \in Threads |-> <<>>]

(* --------------------------- pin / unpin ------------------------------- *)
\* where a call continues once epoch::pin has returned its guard
AfterPinPc(op) ==
    CASE op = "push" -> "push_load"
      [] op = "pop" -> "pop_load"
      [] op = "is_empty" -> "empty_load"
      [] op = "qpush" -> "qpush_tail"
      [] op = "qpop" -> "qpop_head"
      [] op = "sqpush" -> "sq_push_tail"
      [] op = "sqpop" -> "sq_pop_head"
      [] OTHER -> "idle"

\* where a call continues once Participant::try_collect has returned
AfterCollectPc(op) == IF op = "try_gc" THEN "exit" ELSE AfterPinPc(op)

\* _pin_gc / _run_gc after p.enter(): the guard exists, collect if needed
AfterEnterPc(op, g) ==
    CASE op = "try_local_gc" -> "exit"
      [] op = "try_gc" \/ garbage_size(g) > GC_THRESH -> "tc_load"
      [] OTHER -> AfterPinPc(op)

Goto(t, p, l) ==
    /\ pc' = [pc EXCEPT ![t] = p]
    /\ loc' = [loc EXCEPT ![t] = IF p = "idle" THEN NoLoc ELSE l]

\* enter that reads the global epoch again on a nested call
EnterCount_rereads(t, l) ==
    /\ in_critical' = [in_critical EXCEPT ![t] = @ + 1]
    /\ guards' = guards
    /\ Goto(t, "enter_load", l)

\* Participant::enter, first half: bump the counter; a nested call returns
EnterCount(t, l) ==
    LET new_count == in_critical[t] + 1 IN
    /\ in_critical' = [in_critical EXCEPT ![t] = new_count]
    /\ IF new_count > 1
       THEN /\ guards' = [guards EXCEPT ![t] = @ + 1]
            /\ Goto(t, AfterEnterPc(l.op, garbage[t]), l)
       ELSE /\ guards' = guards
            /\ Goto(t, "enter_load", l)

\* Participant::enter_nogc, first half: enter without the collection of
\* local garbage; the counter and the nested return are those of enter
enter_nogc(t, l) ==
    LET new_count == in_critical[t] + 1 IN
    /\ in_critical' = [in_critical EXCEPT ![t] = new_count]
    /\ IF new_count > 1
       THEN /\ guards' = [guards EXCEPT ![t] = @ + 1]
            /\ Goto(t, "nogc_check", l)
       ELSE /\ guards' = guards
            /\ Goto(t, "nogc_load", l)

\* a pin that takes _pin_gc whatever the flag says
PinCollects_always(flag) == TRUE

\* epoch::pin: if p.try_gc.load(Relaxed) { _pin_gc(p) } else { _pin_nogc(p, false) }
PinCollects(flag) == flag

\* epoch::pin(), as user code and the containers call it
EpochPin(t, l) ==
    IF PinCollects(try_gc[t]) THEN EnterCount(t, l) ELSE enter_nogc(t, l)

\* epoch::pin() called by user code
Pin(t) ==
    /\ pc[t] = "idle"
    /\ guards[t] < MaxNest
    /\ EpochPin(t, [NoLoc EXCEPT !.op = "pin"])
    /\ UNCHANGED <<extVars, msqVars, globalEpoch, do_global, gbag, epoch, garbage, refs,
                   stackVars, heapVars, histVars, casWins>>

\* Participant::enter: global::get().epoch.load(Relaxed) after the fence
EnterLoad(t) ==
    /\ pc[t] = "enter_load"
    /\ Goto(t, "enter_store", [loc[t] EXCEPT !.global_epoch = globalEpoch])
    /\ UNCHANGED <<extVars, script, msqVars, ebrVars, guards, refs, stackVars, heapVars, histVars, casWins>>

\* Participant::enter: adopt the global epoch and rotate the local bags
EnterStore(t) ==
    /\ pc[t] = "enter_store"
    /\ \E budget \in Budgets :
         LET changed == loc[t].global_epoch /= epoch[t]
             r == LocalCollect(garbage[t], budget)
             g2 == IF changed THEN r.g ELSE garbage[t]
             freed == IF changed THEN r.freed ELSE <<>>
         IN /\ epoch' = [epoch EXCEPT ![t] = IF changed THEN loc[t].global_epoch ELSE @]
            /\ garbage' = [garbage EXCEPT ![t] = g2]
            /\ alloc' = FreedAlloc(alloc, freed)
            /\ dtor' = FreedDtor(dtor, freed)
            /\ Goto(t, AfterEnterPc(loc[t].op, g2), loc[t])
    /\ guards' = [guards EXCEPT ![t] = @ + 1]
    /\ UNCHANGED <<extVars, script, msqVars, globalEpoch, do_global, gbag, in_critical, refs, stackVars,
                   gen, histVars, casWins>>

\* exit that leaves the counter alone unless it drops to 0
ExitBody_keeps(t) ==
    LET new_count == IF in_critical[t] > 1 THEN in_critical[t] ELSE 0 IN
    /\ in_critical' = [in_critical EXCEPT ![t] = new_count]
    /\ guards' = [guards EXCEPT ![t] = @ - 1]
    /\ refs' = [refs EXCEPT ![t] = IF new_count = 0 THEN {} ELSE @]
    /\ Goto(t, "idle", NoLoc)

\* Participant::exit, called by Drop for Guard
ExitBody(t) ==
    LET new_count == in_critical[t] - 1 IN
    /\ in_critical' = [in_critical EXCEPT ![t] = new_count]
    /\ guards' = [guards EXCEPT ![t] = @ - 1]
    /\ refs' = [refs EXCEPT ![t] = IF new_count = 0 THEN {} ELSE @]
    /\ Goto(t, "idle", NoLoc)

\* user code drops its innermost guard
Unpin(t) ==
    /\ pc[t] = "idle"
    /\ guards[t] > 0
    /\ ExitBody(t)
    /\ UNCHANGED <<extVars, msqVars, globalEpoch, do_global, gbag, epoch, garbage, stackVars,
                   heapVars, histVars, casWins>>

\* the stack of returned calls after a call that returns v
Returned(sh, op, v) ==
    CASE op = "push" -> <<v>> \o sh
      [] op = "pop" /\ sh /= <<>> -> Tail(sh)
      [] OTHER -> sh

\* what consumer t has received last from each producer once its try_pop
\* has returned v
Received(ql, t, op, v) ==
    IF op \in {"qpop", "sqpop"} /\ v /= 0 /\ qprod[v] /= 0
    THEN [ql EXCEPT ![t][qprod[v]] = v]
    ELSE ql

\* the guard a container operation or _run_gc took goes out of scope
Exit(t) ==
    /\ pc[t] = "exit"
    /\ ExitBody(t)
    /\ shadow' = Returned(shadow, loc[t].op, loc[t].v)
    /\ qlast' = Received(qlast, t, loc[t].op, loc[t].v)
    /\ UNCHANGED <<extVars, script, qhead, qtail, qprod, globalEpoch, do_global, gbag, epoch, garbage, stackVars,
                   heapVars, nextVal, pushed, popCount, staleCas, plist, casWins>>

\* Atomic::load through a guard the user holds: a Shared tied to the guard
LoadRef(t) ==
    /\ pc[t] = "idle"
    /\ guards[t] > 0
    /\ head /= Null
    /\ head \notin refs[t]
    /\ refs' = [refs EXCEPT ![t] = @ \cup {head}]
    /\ UNCHANGED <<extVars, msqVars, ebrVars, pc, loc, guards, stackVars, heapVars, histVars, casWins>>

(* ----------------------------- try_collect ----------------------------- *)
\* _run_gc: if p.try_gc.load(Relaxed) { p.enter(); ... } else None
run_gc(t, op) ==
    IF try_gc[t]
    THEN EnterCount(t, [NoLoc EXCEPT !.op = op])
    ELSE /\ Goto(t, "rungc_none", [NoLoc EXCEPT !.op = op, !.ret = "None"])
         /\ UNCHANGED <<in_critical, guards>>

\* epoch::try_gc() -> _run_gc(true): p.enter(), then p.try_collect(&g)
TryGc(t) ==
    /\ pc[t] = "idle"
    /\ run_gc(t, "try_gc")
    /\ UNCHANGED <<extVars, msqVars, globalEpoch, do_global, gbag, epoch, garbage, refs,
                   stackVars, heapVars, histVars, casWins>>

\* try_collect: let cur_epoch = global::get().epoch.load(SeqCst)
CollectLoad(t) ==
    /\ pc[t] = "tc_load"
    /\ Goto(t, "tc_scan", [loc[t] EXCEPT !.cur_epoch = globalEpoch, !.idx = 1])
    /\ UNCHANGED <<extVars, script, msqVars, ebrVars, guards, refs, stackVars, heapVars, histVars, casWins>>

\* the participant loop moves on to the next list entry, or to the CAS
ScanAdvance(t) ==
    IF loc[t].idx = Len(plist)
    THEN Goto(t, "tc_cas", loc[t])
    ELSE Goto(t, "tc_scan", [loc[t] EXCEPT !.idx = @ + 1])

\* try_collect returns r; _run_gc passes it on, _pin_gc discards it
CollectReturn(t, r) ==
    Goto(t, AfterCollectPc(loc[t].op),
         IF loc[t].op = "try_gc" THEN [loc[t] EXCEPT !.ret = r] ELSE loc[t])

\* a scan that takes every participant for unpinned
CollectScan_skips(t) ==
    /\ pc[t] = "tc_scan"
    /\ ScanAdvance(t)
    /\ UNCHANGED <<extVars, script, msqVars, ebrVars, guards, refs, stackVars, heapVars, histVars, casWins>>

\* try_collect: p.in_critical.load(Relaxed) > 0
CollectScan(t) ==
    /\ pc[t] = "tc_scan"
    /\ IF in_critical[plist[loc[t].idx]] > 0
       THEN Goto(t, "tc_scan_epoch", loc[t])
       ELSE ScanAdvance(t)
    /\ UNCHANGED <<extVars, script, msqVars, ebrVars, guards, refs, stackVars, heapVars, histVars, casWins>>

\* a scan that lets every participant pass
Blocks_never(p_epoch, cur_epoch) == FALSE

\* does the scanned participant block the advance of cur_epoch
Blocks(p_epoch, cur_epoch) == p_epoch /= cur_epoch

\* try_collect: p.epoch.load(Relaxed) != cur_epoch => return false
CollectScanEpoch(t) ==
    /\ pc[t] = "tc_scan_epoch"
    /\ IF Blocks(epoch[plist[loc[t].idx]], loc[t].cur_epoch)
       THEN CollectReturn(t, "false")
       ELSE ScanAdvance(t)
    /\ UNCHANGED <<extVars, script, msqVars, ebrVars, guards, refs, stackVars, heapVars, histVars, casWins>>

\* a plain store in place of the compare-and-swap
CasHits_always(g_epoch, cur_epoch) == TRUE

\* does epoch.compare_and_swap(cur_epoch, new_epoch) find cur_epoch
CasHits(g_epoch, cur_epoch) == g_epoch = cur_epoch

\* try_collect: the compare_and_swap on the global epoch
CollectCas(t) ==
    /\ pc[t] = "tc_cas"
    /\ IF CasHits(globalEpoch, loc[t].cur_epoch)
       THEN /\ globalEpoch' = wrapping_add(loc[t].cur_epoch, 1)
            /\ casWins' = [casWins EXCEPT ![loc[t].cur_epoch] = Min(2, @ + 1)]
            /\ Goto(t, "tc_store", loc[t])
       ELSE /\ UNCHANGED <<globalEpoch, casWins>>
            /\ CollectReturn(t, "false")
    /\ UNCHANGED <<extVars, script, msqVars, do_global, gbag, epoch, in_critical, garbage, guards, refs,
                   stackVars, heapVars, histVars>>

\* try_collect: self.epoch.store(new_epoch); local garbage.collect()
CollectStore(t) ==
    /\ pc[t] = "tc_store"
    /\ \E budget \in Budgets :
         LET r == LocalCollect(garbage[t], budget) IN
         /\ garbage' = [garbage EXCEPT ![t] = r.g]
         /\ alloc' = FreedAlloc(alloc, r.freed)
         /\ dtor' = FreedDtor(dtor, r.freed)
    /\ epoch' = [epoch EXCEPT ![t] = wrapping_add(loc[t].cur_epoch, 1)]
    /\ Goto(t, "tc_gcollect", loc[t])
    /\ UNCHANGED <<extVars, script, msqVars, globalEpoch, do_global, gbag, in_critical, guards, refs,
                   stackVars, gen, histVars, casWins>>

\* index of the global bag try_collect frees after installing new_epoch
CollectIndex(new_epoch) == wrapping_add(new_epoch, 1) % 3

\* try_collect: garbage[new_epoch + 1 % 3].collect(); set_garbage_flag()
CollectGlobal(t) ==
    /\ pc[t] = "tc_gcollect"
    /\ LET i == CollectIndex(wrapping_add(loc[t].cur_epoch, 1))
           freed == IF gbag[i].nonnull THEN gbag[i].items ELSE <<>>
           gb2 == [gbag EXCEPT ![i] = IF @.nonnull THEN EmptyConcBag ELSE @]
       IN /\ gbag' = gb2
          /\ alloc' = FreedAlloc(alloc, freed)
          /\ dtor' = FreedDtor(dtor, freed)
          /\ do_global' = set_garbage_flag(gb2, do_global)
    /\ CollectReturn(t, "true")
    /\ UNCHANGED <<extVars, script, msqVars, globalEpoch, epoch, in_critical, garbage, guards, refs,
                   stackVars, gen, histVars, casWins>>

(* --------------------------- migrate_garbage --------------------------- *)
\* global bag that receives local.old
MigrateOldIndex(cur_epoch) == wrapping_sub(cur_epoch, 1) % 3

\* global bag that receives local.cur
MigrateCurIndex(cur_epoch) == cur_epoch % 3

\* Participant::migrate_garbage: take the local bags, insert local.old
migrate_garbage(t, l) ==
    /\ gbag' = [gbag EXCEPT ![MigrateOldIndex(epoch[t])] =
                                ConcBagInsert(@, garbage[t].old)]
    /\ garbage' = [garbage EXCEPT ![t] = EmptyLocal]
    /\ Goto(t, "mg_cur", [l EXCEPT !.cur_epoch = epoch[t], !.local = garbage[t]])

\* Guard::migrate_garbage called by user code
Migrate(t) ==
    /\ pc[t] = "idle"
    /\ guards[t] > 0
    /\ garbage_size(garbage[t]) > 0
    /\ migrate_garbage(t, [NoLoc EXCEPT !.op = "migrate"])
    /\ UNCHANGED <<extVars, msqVars, globalEpoch, do_global, epoch, in_critical, guards, refs,
                   stackVars, heapVars, histVars, casWins>>

\* migrate_garbage: garbage[cur_epoch % 3].insert(local.cur)
MigrateCur(t) ==
    /\ pc[t] = "mg_cur"
    /\ gbag' = [gbag EXCEPT ![MigrateCurIndex(loc[t].cur_epoch)] =
                                ConcBagInsert(@, loc[t].local.cur)]
    /\ Goto(t, "mg_load", loc[t])
    /\ UNCHANGED <<extVars, script, msqVars, globalEpoch, do_global, epoch, in_critical, garbage, guards,
                   refs, stackVars, heapVars, histVars, casWins>>

\* migrate_garbage: global::get().epoch.load(Relaxed)
MigrateLoad(t) ==
    /\ pc[t] = "mg_load"
    /\ Goto(t, "mg_new", [loc[t] EXCEPT !.global_epoch = globalEpoch])
    /\ UNCHANGED <<extVars, script, msqVars, ebrVars, guards, refs, stackVars, heapVars, histVars, casWins>>

\* migrate_garbage: garbage[global % 3].insert(local.new); set_garbage_flag()
MigrateNew(t) ==
    /\ pc[t] = "mg_new"
    /\ LET gb2 == [gbag EXCEPT ![loc[t].global_epoch % 3] =
                                   ConcBagInsert(@, loc[t].local.new)]
       IN /\ gbag' = gb2
          /\ do_global' = set_garbage_flag(gb2, do_global)
    /\ Goto(t, IF loc[t].op = "migrate" THEN "idle" ELSE AfterPinPc(loc[t].op),
             [loc[t] EXCEPT !.local = EmptyLocal])
    /\ UNCHANGED <<extVars, script, msqVars, globalEpoch, epoch, in_critical, garbage, guards, refs,
                   stackVars, heapVars, histVars, casWins>>

(* ---------------------------- Treiber stack ---------------------------- *)
\* push: Owned::new(Node { data: t, next: null }); epoch::pin()
Push(t) ==
    /\ pc[t] = "idle"
    /\ \E a \in Addrs :
         /\ ~alloc[a]
         /\ alloc' = [alloc EXCEPT ![a] = TRUE]
         /\ gen' = [gen EXCEPT ![a] = @ + 1]
         /\ dtor' = [dtor EXCEPT ![a] = 0]
         /\ data' = [data EXCEPT ![a] = nextVal]
         /\ next' = [next EXCEPT ![a] = Null]
         /\ EpochPin(t, [NoLoc EXCEPT !.op = "push", !.n = a])
    /\ nextVal' = nextVal + 1
    /\ UNCHANGED <<extVars, msqVars, globalEpoch, do_global, gbag, epoch, garbage, refs, head,
                   pushed, popCount, staleCas, shadow, plist, casWins>>

\* push: head = self.head.load(Relaxed); n.next.store_shared(head)
PushLoad(t) ==
    /\ pc[t] = "push_load"
    /\ next' = [next EXCEPT ![loc[t].n] = head]
    /\ Goto(t, "push_cas", [loc[t] EXCEPT !.h = head])
    /\ UNCHANGED <<extVars, script, msqVars, ebrVars, guards, refs, head, data, heapVars, histVars, casWins>>

\* push: self.head.cas_and_ref(head, n, Release)
PushCas(t) ==
    /\ pc[t] = "push_cas"
    /\ IF head = loc[t].h
       THEN /\ head' = loc[t].n
            /\ pushed' = pushed \cup {data[loc[t].n]}
            /\ Goto(t, "exit", [loc[t] EXCEPT !.v = data[loc[t].n]])
       ELSE /\ UNCHANGED <<head, pushed>>
            /\ Goto(t, "push_load", loc[t])
    /\ UNCHANGED <<extVars, script, msqVars, ebrVars, guards, refs, next, data, heapVars, nextVal,
                   popCount, staleCas, shadow, plist, casWins>>

\* pop: epoch::pin()
Pop(t) ==
    /\ pc[t] = "idle"
    /\ EpochPin(t, [NoLoc EXCEPT !.op = "pop"])
    /\ UNCHANGED <<extVars, msqVars, globalEpoch, do_global, gbag, epoch, garbage, refs,
                   stackVars, heapVars, histVars, casWins>>

\* pop: match self.head.load(Acquire, &guard)
PopLoad(t) ==
    /\ pc[t] = "pop_load"
    /\ IF head = Null
       THEN Goto(t, "exit", loc[t])
       ELSE Goto(t, "pop_next", [loc[t] EXCEPT !.h = head, !.hgen = gen[head]])
    /\ UNCHANGED <<extVars, script, msqVars, ebrVars, guards, refs, stackVars, heapVars, histVars, casWins>>

\* a pop that takes the rest of the stack to be empty
PopNext_null(t) ==
    /\ pc[t] = "pop_next"
    /\ Goto(t, "pop_cas", [loc[t] EXCEPT !.nx = Null])
    /\ UNCHANGED <<extVars, script, msqVars, ebrVars, guards, refs, stackVars, heapVars,
                   histVars, casWins>>

\* pop: next = head.next.load(Relaxed); a freed node reads as anything
PopNext(t) ==
    /\ pc[t] = "pop_next"
    /\ \E nx \in (IF alloc[loc[t].h] THEN {next[loc[t].h]} ELSE Addrs \cup {Null}) :
         Goto(t, "pop_cas", [loc[t] EXCEPT !.nx = nx])
    /\ UNCHANGED <<extVars, script, msqVars, ebrVars, guards, refs, stackVars, heapVars, histVars, casWins>>

\* pop: cas_shared(Some(head), next); guard.unlinked(head); ptr::read(data)
PopCas(t) ==
    /\ pc[t] = "pop_cas"
    /\ IF head = loc[t].h
       THEN /\ head' = loc[t].nx
            /\ garbage' = [garbage EXCEPT ![t] = LocalInsert(@, loc[t].h)]
            /\ \E v \in (IF alloc[loc[t].h] THEN {data[loc[t].h]} ELSE Values) :
                 /\ popCount' = [popCount EXCEPT ![v] = Min(2, @ + 1)]
                 /\ Goto(t, "exit", [loc[t] EXCEPT !.v = v])
            /\ staleCas' = (staleCas \/ gen[loc[t].h] /= loc[t].hgen)
            /\ unlinkedIn' = [unlinkedIn EXCEPT ![loc[t].h] = globalEpoch]
       ELSE /\ UNCHANGED <<head, garbage, popCount, staleCas, unlinkedIn>>
            /\ Goto(t, "pop_load", loc[t])
    /\ UNCHANGED <<segqVars, spscVars, gcVars, listVars, globVars, unitVars, script, msqVars, globalEpoch, do_global, gbag, epoch, in_critical, guards,
                   refs, next, data, heapVars, nextVal, pushed, shadow, plist,
                   casWins>>

\* is_empty: epoch::pin()
IsEmpty(t) ==
    /\ pc[t] = "idle"
    /\ EpochPin(t, [NoLoc EXCEPT !.op = "is_empty"])
    /\ UNCHANGED <<extVars, msqVars, globalEpoch, do_global, gbag, epoch, garbage, refs,
                   stackVars, heapVars, histVars, casWins>>

\* is_empty: self.head.load(Acquire, &guard).is_none()
IsEmptyLoad(t) ==
    /\ pc[t] = "empty_load"
    /\ Goto(t, "exit", [loc[t] EXCEPT !.v = IF head = Null THEN 1 ELSE 0])
    /\ UNCHANGED <<extVars, script, msqVars, ebrVars, guards, refs, stackVars, heapVars, histVars, casWins>>

(* ------------------------- Michael-Scott queue ------------------------- *)
\* what a load from node a returns: the field, or anything once a is freed
ReadNext(a) == IF alloc[a] THEN {next[a]} ELSE QAddrs \cup {Null}

ReadData(a) == IF alloc[a] THEN {data[a]} ELSE Values

\* push: allocate the node, then epoch::pin()
QPush(t) ==
    /\ pc[t] = "idle"
    /\ \E a \in QAddrs :
         /\ ~alloc[a]
         /\ alloc' = [alloc EXCEPT ![a] = TRUE]
         /\ gen' = [gen EXCEPT ![a] = @ + 1]
         /\ dtor' = [dtor EXCEPT ![a] = 0]
         /\ data' = [data EXCEPT ![a] = nextVal]
         /\ next' = [next EXCEPT ![a] = Null]
         /\ EpochPin(t, [NoLoc EXCEPT !.op = "qpush", !.n = a])
    /\ nextVal' = nextVal + 1
    /\ qprod' = [qprod EXCEPT ![nextVal] = t]
    /\ UNCHANGED <<extVars, globalEpoch, do_global, gbag, epoch, garbage, refs, head,
                   pushed, popCount, staleCas, shadow, plist, casWins, qhead,
                   qtail, qlast>>

\* push: read tail
QPushTail(t) ==
    /\ pc[t] = "qpush_tail"
    /\ Goto(t, "qpush_next", [loc[t] EXCEPT !.h = qtail])
    /\ UNCHANGED <<extVars, script, msqVars, ebrVars, guards, refs, stackVars, heapVars, histVars,
                   casWins>>

\* push: read tail.next
QPushNext(t) ==
    /\ pc[t] = "qpush_next"
    /\ \E nx \in ReadNext(loc[t].h) :
         Goto(t, "qpush_cas", [loc[t] EXCEPT !.nx = nx])
    /\ UNCHANGED <<extVars, script, msqVars, ebrVars, guards, refs, stackVars, heapVars, histVars,
                   casWins>>

\* push: if next is null, CAS it to the new node; if next is non-null, help
\* advance tail and retry
QPushCas(t) ==
    /\ pc[t] = "qpush_cas"
    /\ IF loc[t].nx = Null
       THEN IF next[loc[t].h] = Null
            THEN /\ next' = [next EXCEPT ![loc[t].h] = loc[t].n]
                 /\ qtail' = qtail
                 /\ Goto(t, "qpush_swing", loc[t])
            ELSE /\ UNCHANGED <<next, qtail>>
                 /\ Goto(t, "qpush_tail", loc[t])
       ELSE /\ qtail' = IF qtail = loc[t].h THEN loc[t].nx ELSE qtail
            /\ next' = next
            /\ Goto(t, "qpush_tail", loc[t])
    /\ UNCHANGED <<extVars, script, ebrVars, guards, refs, head, data, heapVars, histVars, casWins,
                   qhead, qprod, qlast>>

\* push: then CAS tail forward
QPushSwing(t) ==
    /\ pc[t] = "qpush_swing"
    /\ qtail' = IF qtail = loc[t].h THEN loc[t].n ELSE qtail
    /\ Goto(t, "exit", [loc[t] EXCEPT !.v = data[loc[t].n]])
    /\ UNCHANGED <<extVars, script, ebrVars, guards, refs, stackVars, heapVars, histVars, casWins,
                   qhead, qprod, qlast>>

\* try_pop: epoch::pin()
QPop(t) ==
    /\ pc[t] = "idle"
    /\ EpochPin(t, [NoLoc EXCEPT !.op = "qpop"])
    /\ UNCHANGED <<extVars, msqVars, globalEpoch, do_global, gbag, epoch, garbage, refs,
                   stackVars, heapVars, histVars, casWins>>

\* try_pop: read head
QPopHead(t) ==
    /\ pc[t] = "qpop_head"
    /\ Goto(t, "qpop_next", [loc[t] EXCEPT !.h = qhead, !.hgen = gen[qhead]])
    /\ UNCHANGED <<extVars, script, msqVars, ebrVars, guards, refs, stackVars, heapVars, histVars,
                   casWins>>

\* try_pop: read head.next
QPopNext(t) ==
    /\ pc[t] = "qpop_next"
    /\ \E nx \in ReadNext(loc[t].h) :
         Goto(t, "qpop_tail", [loc[t] EXCEPT !.nx = nx])
    /\ UNCHANGED <<extVars, script, msqVars, ebrVars, guards, refs, stackVars, heapVars, histVars,
                   casWins>>

\* try_pop: read tail; if head == tail and next is null, return None; if
\* head == tail but next is non-null, help advance tail; otherwise go on to
\* the CAS on head (reading the value through a null next is a crash)
QPopTail(t) ==
    /\ pc[t] = "qpop_tail"
    /\ IF loc[t].h = qtail
       THEN IF loc[t].nx = Null
            THEN Goto(t, "exit", loc[t])
            ELSE Goto(t, "qpop_help", [loc[t] EXCEPT !.tl = qtail])
       ELSE IF loc[t].nx = Null
            THEN Goto(t, "crashed", loc[t])
            ELSE Goto(t, "qpop_cas", loc[t])
    /\ UNCHANGED <<extVars, script, msqVars, ebrVars, guards, refs, stackVars, heapVars, histVars,
                   casWins>>

\* try_pop: help advance tail, then retry
QPopHelp(t) ==
    /\ pc[t] = "qpop_help"
    /\ qtail' = IF qtail = loc[t].tl THEN loc[t].nx ELSE qtail
    /\ Goto(t, "qpop_head", loc[t])
    /\ UNCHANGED <<extVars, script, ebrVars, guards, refs, stackVars, heapVars, histVars, casWins,
                   qhead, qprod, qlast>>

\* try_pop: CAS head forward and return the value, handing the old head to
\* guard.unlinked
QPopCas(t) ==
    /\ pc[t] = "qpop_cas"
    /\ IF qhead = loc[t].h
       THEN /\ qhead' = loc[t].nx
            /\ garbage' = [garbage EXCEPT ![t] = LocalInsert(@, loc[t].h)]
            /\ \E v \in ReadData(loc[t].nx) :
                 Goto(t, "exit", [loc[t] EXCEPT !.v = v])
       ELSE /\ UNCHANGED <<qhead, garbage>>
            /\ Goto(t, "qpop_head", loc[t])
    /\ UNCHANGED <<extVars, script, globalEpoch, do_global, gbag, epoch, in_critical, guards,
                   refs, stackVars, heapVars, histVars, casWins, qtail, qprod,
                   qlast>>

(* ------------------------------ SegQueue ------------------------------- *)
\* push: epoch::pin(); the value pushed is the next one of the run
SqPush(t) ==
    /\ pc[t] = "idle"
    /\ EpochPin(t, [NoLoc EXCEPT !.op = "sqpush", !.v = nextVal])
    /\ nextVal' = nextVal + 1
    /\ qprod' = [qprod EXCEPT ![nextVal] = t]
    /\ UNCHANGED <<auxVars, spscVars, gcVars, segqVars, globalEpoch, do_global, gbag, epoch, garbage, refs,
                   stackVars, heapVars, pushed, popCount, staleCas, shadow,
                   plist, casWins, qhead, qtail, qlast>>

\* a push that always writes into the first segment
SqPushTail_first(t) ==
    /\ pc[t] = "sq_push_tail"
    /\ Goto(t, "sq_push_write",
            [loc[t] EXCEPT !.tl = 1, !.i = (segs[1].high + 1) % SEG_SIZE])
    /\ UNCHANGED <<auxVars, spscVars, gcVars, segqVars, script, msqVars, ebrVars, guards, refs, stackVars,
                   heapVars, histVars, casWins>>

\* push: tail = self.tail.load(Acquire)
SqPushTail(t) ==
    /\ pc[t] = "sq_push_tail"
    /\ Goto(t, "sq_push_high", [loc[t] EXCEPT !.tl = segq.tail])
    /\ UNCHANGED <<auxVars, spscVars, gcVars, segqVars, script, msqVars, ebrVars, guards, refs, stackVars,
                   heapVars, histVars, casWins>>

\* push: if tail.high.load(Relaxed) >= SEG_SIZE { continue }
SqPushHigh(t) ==
    /\ pc[t] = "sq_push_high"
    /\ IF segs[loc[t].tl].high >= SEG_SIZE
       THEN Goto(t, "sq_push_tail", loc[t])
       ELSE Goto(t, "sq_push_add", loc[t])
    /\ UNCHANGED <<auxVars, spscVars, gcVars, segqVars, script, msqVars, ebrVars, guards, refs, stackVars,
                   heapVars, histVars, casWins>>

\* push: i = tail.high.fetch_add(1); only i < SEG_SIZE owns a slot
SqPushAdd(t) ==
    /\ pc[t] = "sq_push_add"
    /\ LET i == segs[loc[t].tl].high IN
         /\ segs' = [segs EXCEPT ![loc[t].tl].high = i + 1]
         /\ IF i < SEG_SIZE
            THEN Goto(t, "sq_push_write", [loc[t] EXCEPT !.i = i])
            ELSE Goto(t, "sq_push_tail", loc[t])
    /\ UNCHANGED <<auxVars, spscVars, gcVars, segq, script, msqVars, ebrVars, guards, refs, stackVars,
                   heapVars, histVars, casWins>>

\* push: ptr::write(&mut (*cell).0, t)
SqPushWrite(t) ==
    /\ pc[t] = "sq_push_write"
    /\ segs' = [segs EXCEPT ![loc[t].tl].data[loc[t].i] = loc[t].v]
    /\ pushed' = pushed \cup {loc[t].v}
    /\ Goto(t, "sq_push_ready", loc[t])
    /\ UNCHANGED <<auxVars, spscVars, gcVars, segq, script, msqVars, ebrVars, guards, refs, stackVars,
                   heapVars, nextVal, popCount, staleCas, shadow, plist, casWins>>

\* push: (*cell).1.store(true, Release); the writer of the last slot goes
\* on to install the next segment
SqPushReady(t) ==
    /\ pc[t] = "sq_push_ready"
    /\ segs' = [segs EXCEPT ![loc[t].tl].ready[loc[t].i] = TRUE]
    /\ IF loc[t].i + 1 = SEG_SIZE
       THEN Goto(t, "sq_push_next", loc[t])
       ELSE Goto(t, "exit", loc[t])
    /\ UNCHANGED <<auxVars, spscVars, gcVars, segq, script, msqVars, ebrVars, guards, refs, stackVars,
                   heapVars, histVars, casWins>>

\* push: tail.next.store_and_ref(Owned::new(Segment::new()), Release)
SqPushNext(t) ==
    /\ pc[t] = "sq_push_next"
    /\ LET n == loc[t].tl + 1 IN
         /\ n \in SegAddrs
         /\ segs' = [segs EXCEPT ![loc[t].tl].next = n]
         /\ Goto(t, "sq_push_settail", [loc[t] EXCEPT !.nx = n])
    /\ UNCHANGED <<auxVars, spscVars, gcVars, segq, script, msqVars, ebrVars, guards, refs, stackVars,
                   heapVars, histVars, casWins>>

\* a push that leaves the tail pointer where it is
NewTail_stays(nx, old) == old

\* push: the segment self.tail.store_shared(Some(tail), Release) stores
NewTail(nx, old) == nx

\* push: self.tail.store_shared(Some(tail), Release)
SqPushSetTail(t) ==
    /\ pc[t] = "sq_push_settail"
    /\ segq' = [segq EXCEPT !.tail = NewTail(loc[t].nx, segq.tail)]
    /\ Goto(t, "exit", loc[t])
    /\ UNCHANGED <<auxVars, spscVars, gcVars, segs, script, msqVars, ebrVars, guards, refs, stackVars,
                   heapVars, histVars, casWins>>

\* the push of value v has returned
PushReturned(v) ==
    /\ v \in pushed
    /\ ~(pc[qprod[v]] # "idle" /\ loc[qprod[v]].op = "sqpush" /\ loc[qprod[v]].v = v)

\* try_pop: epoch::pin(); the frame notes a set of values
SqPopFrom(t, noted) ==
    /\ pc[t] = "idle"
    /\ EpochPin(t, [NoLoc EXCEPT !.op = "sqpop", !.before = noted])
    /\ UNCHANGED <<auxVars, spscVars, gcVars, segqVars, msqVars, globalEpoch, do_global, gbag, epoch,
                   garbage, refs, stackVars, heapVars, histVars, casWins>>

\* try_pop
SqPop(t) == SqPopFrom(t, {})

\* try_pop, the frame noting the values whose push returned before the call
SqPopNoting(t) == SqPopFrom(t, {v \in Values : PushReturned(v)})

\* try_pop: head = self.head.load(Acquire)
SqPopHead(t) ==
    /\ pc[t] = "sq_pop_head"
    /\ Goto(t, "sq_pop_low", [loc[t] EXCEPT !.h = segq.head])
    /\ UNCHANGED <<auxVars, spscVars, gcVars, segqVars, script, msqVars, ebrVars, guards, refs, stackVars,
                   heapVars, histVars, casWins>>

\* try_pop: low = head.low.load(Relaxed)
SqPopLow(t) ==
    /\ pc[t] = "sq_pop_low"
    /\ Goto(t, "sq_pop_high", [loc[t] EXCEPT !.low = segs[loc[t].h].low])
    /\ UNCHANGED <<auxVars, spscVars, gcVars, segqVars, script, msqVars, ebrVars, guards, refs, stackVars,
                   heapVars, histVars, casWins>>

\* a try_pop that takes every slot of the segment for filled
ClaimLimit_size(high) == SEG_SIZE

\* try_pop: cmp::min(head.high.load(Relaxed), SEG_SIZE)
ClaimLimit(high) == Min(high, SEG_SIZE)

\* try_pop: if low >= cmp::min(head.high.load(Relaxed), SEG_SIZE) { break }
SqPopHigh(t) ==
    /\ pc[t] = "sq_pop_high"
    /\ IF loc[t].low >= ClaimLimit(segs[loc[t].h].high)
       THEN Goto(t, "sq_pop_next", loc[t])
       ELSE Goto(t, "sq_pop_cas", loc[t])
    /\ UNCHANGED <<auxVars, spscVars, gcVars, segqVars, script, msqVars, ebrVars, guards, refs, stackVars,
                   heapVars, histVars, casWins>>

\* a try_pop that stores low+1 without comparing
SqPopCas_blind(t) ==
    /\ pc[t] = "sq_pop_cas"
    /\ segs' = [segs EXCEPT ![loc[t].h].low = loc[t].low + 1]
    /\ Goto(t, "sq_pop_ready", loc[t])
    /\ UNCHANGED <<auxVars, spscVars, gcVars, segq, script, msqVars, ebrVars, guards, refs, stackVars,
                   heapVars, histVars, casWins>>

\* try_pop: head.low.compare_and_swap(low, low+1, Relaxed) == low
SqPopCas(t) ==
    /\ pc[t] = "sq_pop_cas"
    /\ IF segs[loc[t].h].low = loc[t].low
       THEN /\ segs' = [segs EXCEPT ![loc[t].h].low = loc[t].low + 1]
            /\ Goto(t, "sq_pop_ready", loc[t])
       ELSE /\ segs' = segs
            /\ Goto(t, "sq_pop_low", loc[t])
    /\ UNCHANGED <<auxVars, spscVars, gcVars, segq, script, msqVars, ebrVars, guards, refs, stackVars,
                   heapVars, histVars, casWins>>

\* a try_pop that moves the head after any slot
AdvancesHead_any(low) == TRUE

\* try_pop: if low + 1 == SEG_SIZE { .. self.head.store_shared(..) }
AdvancesHead(low) == low + 1 = SEG_SIZE

\* try_pop: loop { if (*cell).1.load(Acquire) { break } }
SqPopReady(t) ==
    /\ pc[t] = "sq_pop_ready"
    /\ segs[loc[t].h].ready[loc[t].low]
    /\ IF AdvancesHead(loc[t].low)
       THEN Goto(t, "sq_pop_adv", loc[t])
       ELSE Goto(t, "sq_pop_read", loc[t])
    /\ UNCHANGED <<auxVars, spscVars, gcVars, segqVars, script, msqVars, ebrVars, guards, refs, stackVars,
                   heapVars, histVars, casWins>>

\* try_pop: the taker of the last slot waits for head.next and stores it
\* in self.head
SqPopAdv(t) ==
    /\ pc[t] = "sq_pop_adv"
    /\ segs[loc[t].h].next /= Null
    /\ segq' = [segq EXCEPT !.head = segs[loc[t].h].next]
    /\ Goto(t, "sq_pop_read", loc[t])
    /\ UNCHANGED <<auxVars, spscVars, gcVars, segs, script, msqVars, ebrVars, guards, refs, stackVars,
                   heapVars, histVars, casWins>>

\* try_pop: return Some(ptr::read(&(*cell).0))
SqPopRead(t) ==
    /\ pc[t] = "sq_pop_read"
    /\ LET v == segs[loc[t].h].data[loc[t].low] IN
         /\ popCount' = [popCount EXCEPT ![v] = Min(2, @ + 1)]
         /\ Goto(t, "exit", [loc[t] EXCEPT !.v = v])
    /\ UNCHANGED <<auxVars, spscVars, gcVars, segqVars, script, msqVars, ebrVars, guards, refs, stackVars,
                   heapVars, nextVal, pushed, staleCas, shadow, plist, casWins>>

\* a try_pop that gives up without a look at head.next
NoSuccessor_always(nx) == TRUE

\* try_pop: head.next.load(Relaxed, &guard).is_none()
NoSuccessor(nx) == nx = Null

\* try_pop: if head.next.load(Relaxed, &guard).is_none() { return None }
SqPopNext(t) ==
    /\ pc[t] = "sq_pop_next"
    /\ IF NoSuccessor(segs[loc[t].h].next)
       THEN Goto(t, "exit", [loc[t] EXCEPT !.v = 0])
       ELSE Goto(t, "sq_pop_head", loc[t])
    /\ UNCHANGED <<auxVars, spscVars, gcVars, segqVars, script, msqVars, ebrVars, guards, refs, stackVars,
                   heapVars, histVars, casWins>>

(* --------------------------- SPSC queues ------------------------------- *)
\* the queue the endpoints of this run share
Q == IF qkind = "SpscQueue" THEN spsc ELSE bufq

\* a store to one of the two liveness flags of the shared queue
SetFlag(field, val) ==
    /\ spsc' = IF qkind = "SpscQueue" THEN [spsc EXCEPT ![field] = val]
               ELSE spsc
    /\ bufq' = IF qkind = "SpscQueue" THEN bufq
               ELSE [bufq EXCEPT ![field] = val]

\* a call of role r returns: its frame keeps the call's name and result
Return(r, op, ret, v) ==
    /\ spc' = [spc EXCEPT ![r] = "idle"]
    /\ sloc' = [sloc EXCEPT ![r] = [SNoLoc EXCEPT !.op = op, !.ret = ret,
                                                    !.v = v]]

\* the value the producer offers next: a value handed back by a failed
\* push is offered again
Offered == Len(sent) + 1

\* release_segment frees the Box: the destructor of every slot runs
ReleaseSegment(seg) ==
    /\ drops' = [v \in SValues |->
                    IF \E k \in 0..(SPSC_SEG_SIZE - 1) :
                           blocks[seg].data[k] = v
                    THEN drops[v] + 1 ELSE drops[v]]
    /\ wild' = (wild \/ \E k \in 0..(SPSC_SEG_SIZE - 1) :
                            blocks[seg].data[k] = 0)

\* a liveness check that always finds the consumer alive
ConsumerDead_never == FALSE

\* if !self.is_consumer_alive()
ConsumerDead == ~spsc.cons_alive

\* return Err(val) / Err(ctor): the value or the constructor goes back
\* to the caller, the constructor has not run
PushErr ==
    /\ spc.prod = "push_err"
    /\ Return("prod", sloc.prod.op, "Err", sloc.prod.v)
    /\ UNCHANGED <<auxVars, coreVars, segqVars, gcVars, qkind, spsc, blocks, bufq,
                   bufdata, endpoints, sent, recvd, drops, wild>>

\* BoundedProducer::try_push and try_construct: the liveness check
SpPushAlive(op) ==
    /\ qkind = "SpscQueue"
    /\ endpoints.prod = 1
    /\ spc.prod = "idle"
    /\ Offered \in SValues
    /\ spc' = [spc EXCEPT !.prod = IF ConsumerDead THEN "push_err"
                                   ELSE "sp_seg"]
    /\ sloc' = [sloc EXCEPT !.prod = [SNoLoc EXCEPT !.op = op, !.v = Offered]]
    /\ UNCHANGED <<auxVars, coreVars, segqVars, gcVars, qkind, spsc, blocks, bufq,
                   bufdata, endpoints, sent, recvd, drops, wild>>

\* acquire_segment as the source has it: its first statement allocates
AcquireSegment(a) == ~blocks[a].live

\* SpscQueue::try_construct: tail, tail_block and, at a segment boundary,
\* the next segment, stored in the next field of the tail block
SpPushSeg ==
    /\ qkind = "SpscQueue"
    /\ spc.prod = "sp_seg"
    /\ LET ctail == spsc.tail
           tb == spsc.tail_block
       IN  IF ctail % SPSC_SEG_SIZE = 0
           THEN /\ \E a \in BlockAddrs :
                     /\ AcquireSegment(a)
                     /\ blocks' = [blocks EXCEPT ![a] = [SpscSegmentNew
                                                   EXCEPT !.live = TRUE],
                                                 ![tb].next = a]
                     /\ sloc' = [sloc EXCEPT !.prod.idx = ctail,
                                             !.prod.blk = a]
                /\ spc' = [spc EXCEPT !.prod = "sp_block"]
           ELSE /\ sloc' = [sloc EXCEPT !.prod.idx = ctail, !.prod.blk = tb]
                /\ spc' = [spc EXCEPT !.prod = "sp_write"]
                /\ UNCHANGED blocks
    /\ UNCHANGED <<auxVars, coreVars, segqVars, gcVars, qkind, spsc, bufq, bufdata,
                   endpoints, sent, recvd, drops, wild>>

\* try_construct: tail_block = next; self.tail_block.store(next, Relaxed)
SpPushBlock ==
    /\ qkind = "SpscQueue"
    /\ spc.prod = "sp_block"
    /\ spsc' = [spsc EXCEPT !.tail_block = sloc.prod.blk]
    /\ spc' = [spc EXCEPT !.prod = "sp_write"]
    /\ UNCHANGED <<auxVars, coreVars, segqVars, gcVars, qkind, blocks, bufq, bufdata,
                   endpoints, sloc, sent, recvd, drops, wild>>

\* ptr::write(data_pos, ctor())
SpPushWrite ==
    /\ qkind = "SpscQueue"
    /\ spc.prod = "sp_write"
    /\ blocks' = [blocks EXCEPT
                    ![sloc.prod.blk].data[sloc.prod.idx % SPSC_SEG_SIZE] =
                        sloc.prod.v]
    /\ spc' = [spc EXCEPT !.prod = "sp_publish"]
    /\ UNCHANGED <<auxVars, coreVars, segqVars, gcVars, qkind, spsc, bufq, bufdata,
                   endpoints, sloc, sent, recvd, drops, wild>>

\* self.tail.store(next_tail, Release); Ok(())
SpPushPublish ==
    /\ qkind = "SpscQueue"
    /\ spc.prod = "sp_publish"
    /\ spsc' = [spsc EXCEPT !.tail = sloc.prod.idx + 1]
    /\ sent' = Append(sent, sloc.prod.v)
    /\ Return("prod", sloc.prod.op, "Ok", sloc.prod.v)
    /\ UNCHANGED <<auxVars, coreVars, segqVars, gcVars, qkind, blocks, bufq, bufdata,
                   endpoints, recvd, drops, wild>>

\* a try_pop that returns None: to the consumer, or to the loop of Drop,
\* which then ends (SpscBufferQueue's Drop deallocates the raw block)
PopNone(op) ==
    IF op = "drop"
    THEN /\ spc' = [spc EXCEPT !.cons = "dropped"]
         /\ sloc' = [sloc EXCEPT !.cons = [SNoLoc EXCEPT !.op = op,
                                                        !.ret = "None"]]
    ELSE /\ spc' = [spc EXCEPT !.cons = "pop_none"]
         /\ sloc' = [sloc EXCEPT !.cons = [SNoLoc EXCEPT !.op = op]]

\* return None to the consumer
PopReturnNone ==
    /\ spc.cons = "pop_none"
    /\ Return("cons", sloc.cons.op, "None", 0)
    /\ UNCHANGED <<auxVars, coreVars, segqVars, gcVars, qkind, spsc, blocks, bufq,
                   bufdata, endpoints, sent, recvd, drops, wild>>

\* a try_pop that returns Some(v): the consumer keeps the value, the loop
\* of Drop drops it and calls try_pop again
PopSome(op, v) ==
    IF op = "drop"
    THEN /\ spc' = [spc EXCEPT !.cons = "drop_loop"]
         /\ sloc' = [sloc EXCEPT !.cons = [SNoLoc EXCEPT !.op = op,
                                                        !.ret = "Some",
                                                        !.v = v]]
         /\ drops' = IF v \in SValues
                     THEN [drops EXCEPT ![v] = drops[v] + 1] ELSE drops
         /\ wild' = (wild \/ v \notin SValues)
         /\ UNCHANGED recvd
    ELSE /\ Return("cons", op, "Some", v)
         /\ recvd' = Append(recvd, v)
         /\ UNCHANGED <<drops, wild>>

\* the caller of try_pop: a consumer endpoint between calls, or Drop
PopCaller(op) ==
    IF op = "drop" THEN spc.cons = "drop_loop"
    ELSE endpoints.cons = 1 /\ spc.cons = "idle"

\* an index check that reports an empty queue whenever the cache says so
SpPopEmpty_cached(cur_tail) == spsc.head = spsc.tail_cache

\* an index check that never finds the queue empty
SpPopEmpty_never(cur_tail) == FALSE

\* has the index check of the segmented try_pop found the queue empty
SpPopEmpty(cur_tail) == spsc.head = cur_tail

\* SpscQueue::try_pop: head against tail_cache, refreshed from tail
SpPopCheck(op) ==
    /\ qkind = "SpscQueue"
    /\ PopCaller(op)
    /\ IF spsc.head = spsc.tail_cache
       THEN /\ spsc' = [spsc EXCEPT !.tail_cache = spsc.tail]
            /\ IF SpPopEmpty(spsc.tail)
               THEN PopNone(op)
               ELSE /\ spc' = [spc EXCEPT !.cons = "sc_seg"]
                    /\ sloc' = [sloc EXCEPT !.cons = [SNoLoc EXCEPT
                                    !.op = op, !.idx = spsc.head]]
       ELSE /\ spc' = [spc EXCEPT !.cons = "sc_seg"]
            /\ sloc' = [sloc EXCEPT !.cons = [SNoLoc EXCEPT
                            !.op = op, !.idx = spsc.head]]
            /\ UNCHANGED spsc
    /\ UNCHANGED <<auxVars, coreVars, segqVars, gcVars, qkind, blocks, bufq, bufdata,
                   endpoints, sent, recvd, drops, wild>>

\* SpscQueue::try_pop at a segment boundary: the next pointer, the release
\* of the finished segment, head_block
SpPopSeg ==
    /\ qkind = "SpscQueue"
    /\ spc.cons = "sc_seg"
    /\ LET hb == spsc.head_block
           nx == blocks[hb].next
       IN  IF sloc.cons.idx % SPSC_SEG_SIZE = 0
           THEN IF nx = Null
                THEN /\ PopNone(sloc.cons.op)
                     /\ UNCHANGED <<spsc, blocks, drops, wild>>
                ELSE /\ ReleaseSegment(hb)
                     /\ blocks' = [blocks EXCEPT ![hb] = SpscSegmentNew]
                     /\ spsc' = [spsc EXCEPT !.head_block = nx]
                     /\ spc' = [spc EXCEPT !.cons = "sc_read"]
                     /\ sloc' = [sloc EXCEPT !.cons.blk = nx]
           ELSE /\ spc' = [spc EXCEPT !.cons = "sc_read"]
                /\ sloc' = [sloc EXCEPT !.cons.blk = hb]
                /\ UNCHANGED <<spsc, blocks, drops, wild>>
    /\ UNCHANGED <<auxVars, coreVars, segqVars, gcVars, qkind, bufq, bufdata,
                   endpoints, sent, recvd>>

\* ptr::read(data_pos); self.head.store(next_head, Relaxed)
SpPopRead ==
    /\ qkind = "SpscQueue"
    /\ spc.cons = "sc_read"
    /\ spsc' = [spsc EXCEPT !.head = sloc.cons.idx + 1]
    /\ PopSome(sloc.cons.op,
               blocks[sloc.cons.blk].data[sloc.cons.idx % SPSC_SEG_SIZE])
    /\ UNCHANGED <<auxVars, coreVars, segqVars, gcVars, qkind, blocks, bufq, bufdata,
                   endpoints, sent>>

\* next_tail = if next_tail == self.size { 0 } else { next_tail }
Wrap(i) == IF i = bufq.size THEN 0 ELSE i

\* an index check that declares the ring full one value early
BqFull_early(next_tail, cur_head) ==
    \/ next_tail = cur_head
    \/ Wrap(next_tail + 1) = cur_head

\* has the index check of the ring's try_construct found the ring full
BqFull(next_tail, cur_head) == next_tail = cur_head

\* SpscBufferQueue::try_construct: next_tail against head_cache, refreshed
\* from head
BqPushCheck(op) ==
    /\ qkind = "SpscBufferQueue"
    /\ endpoints.prod = 1
    /\ spc.prod = "idle"
    /\ Offered \in SValues
    /\ LET ctail == bufq.tail
           next_tail == Wrap(ctail + 1)
           go == /\ spc' = [spc EXCEPT !.prod = "bp_write"]
                 /\ sloc' = [sloc EXCEPT !.prod = [SNoLoc EXCEPT !.op = op,
                                     !.v = Offered, !.idx = ctail]]
       IN  IF next_tail = bufq.head_cache
           THEN /\ bufq' = [bufq EXCEPT !.head_cache = bufq.head]
                /\ IF BqFull(next_tail, bufq.head)
                   THEN /\ spc' = [spc EXCEPT !.prod = "push_err"]
                        /\ sloc' = [sloc EXCEPT !.prod = [SNoLoc EXCEPT
                                        !.op = op, !.v = Offered]]
                   ELSE go
           ELSE go /\ UNCHANGED bufq
    /\ UNCHANGED <<auxVars, coreVars, segqVars, gcVars, qkind, spsc, blocks, bufdata,
                   endpoints, sent, recvd, drops, wild>>

\* ptr::write(data_ptr.offset(ctail), ctor())
BqPushWrite ==
    /\ qkind = "SpscBufferQueue"
    /\ spc.prod = "bp_write"
    /\ bufdata' = [bufdata EXCEPT ![sloc.prod.idx] = sloc.prod.v]
    /\ spc' = [spc EXCEPT !.prod = "bp_publish"]
    /\ UNCHANGED <<auxVars, coreVars, segqVars, gcVars, qkind, spsc, blocks, bufq,
                   endpoints, sloc, sent, recvd, drops, wild>>

\* self.tail.store(next_tail, Release)
BqPushPublish ==
    /\ qkind = "SpscBufferQueue"
    /\ spc.prod = "bp_publish"
    /\ bufq' = [bufq EXCEPT !.tail = Wrap(sloc.prod.idx + 1)]
    /\ sent' = Append(sent, sloc.prod.v)
    /\ Return("prod", sloc.prod.op, "Ok", sloc.prod.v)
    /\ UNCHANGED <<auxVars, coreVars, segqVars, gcVars, qkind, spsc, blocks, bufdata,
                   endpoints, recvd, drops, wild>>

\* SpscBufferQueue::try_pop: head against tail_cache, refreshed from tail
BqPopCheck(op) ==
    /\ qkind = "SpscBufferQueue"
    /\ PopCaller(op)
    /\ LET go == /\ spc' = [spc EXCEPT !.cons = "bc_read"]
                 /\ sloc' = [sloc EXCEPT !.cons = [SNoLoc EXCEPT !.op = op,
                                                   !.idx = bufq.head]]
       IN  IF bufq.head = bufq.tail_cache
           THEN /\ bufq' = [bufq EXCEPT !.tail_cache = bufq.tail]
                /\ IF bufq.head = bufq.tail THEN PopNone(op) ELSE go
           ELSE go /\ UNCHANGED bufq
    /\ UNCHANGED <<auxVars, coreVars, segqVars, gcVars, qkind, spsc, blocks, bufdata,
                   endpoints, sent, recvd, drops, wild>>

\* what ptr::read finds at slot i: the block of new(n) holds n slots, a
\* slot past them is outside the allocation and its content is arbitrary
SlotRead(i) ==
    IF i < bufq.cap THEN {bufdata[i]} ELSE {0} \cup SValues

\* ptr::read(data_ptr.offset(chead))
BqPopRead ==
    /\ qkind = "SpscBufferQueue"
    /\ spc.cons = "bc_read"
    /\ \E v \in SlotRead(sloc.cons.idx) :
           sloc' = [sloc EXCEPT !.cons.v = v]
    /\ spc' = [spc EXCEPT !.cons = "bc_publish"]
    /\ UNCHANGED <<auxVars, coreVars, segqVars, gcVars, qkind, spsc, blocks, bufq,
                   bufdata, endpoints, sent, recvd, drops, wild>>

\* self.head.store(next_head, Release); return rval
BqPopPublish ==
    /\ qkind = "SpscBufferQueue"
    /\ spc.cons = "bc_publish"
    /\ bufq' = [bufq EXCEPT !.head = Wrap(sloc.cons.idx + 1)]
    /\ PopSome(sloc.cons.op, sloc.cons.v)
    /\ UNCHANGED <<auxVars, coreVars, segqVars, gcVars, qkind, spsc, blocks, bufdata,
                   endpoints, sent>>

\* the Arc's last reference goes with the last endpoint: Drop for the
\* queue then runs its try_pop loop
LastRef(r) == endpoints[r] = 1 /\ endpoints[IF r = "prod" THEN "cons"
                                            ELSE "prod"] = 0

\* Drop for BoundedConsumer, BoundedProducer, BufferConsumer, BufferProducer
DropEndpoint(r) ==
    /\ qkind # "none"
    /\ endpoints[r] = 1
    /\ spc[r] = "idle"
    /\ spc.cons # "dropped"
    /\ SetFlag(IF r = "prod" THEN "prod_alive" ELSE "cons_alive", FALSE)
    /\ endpoints' = [endpoints EXCEPT ![r] = 0]
    /\ IF LastRef(r)
       THEN /\ spc' = [spc EXCEPT !.cons = "drop_loop"]
            /\ sloc' = [sloc EXCEPT !.cons = [SNoLoc EXCEPT !.op = "drop"]]
       ELSE UNCHANGED <<spc, sloc>>
    /\ UNCHANGED <<auxVars, coreVars, segqVars, gcVars, qkind, blocks, bufdata, sent,
                   recvd, drops, wild>>

\* a create call that does not look at the flag
PartnerAlive_ignored(flag) == FALSE

\* does create_consumer / create_producer find its partner alive
PartnerAlive(flag) == Q[flag]

\* create_consumer (by the producer, r = "prod") and create_producer (by
\* the consumer, r = "cons")
CreatePartner(r) ==
    /\ qkind # "none"
    /\ endpoints[r] = 1
    /\ spc[r] = "idle"
    /\ LET o == IF r = "prod" THEN "cons" ELSE "prod"
           flag == IF r = "prod" THEN "cons_alive" ELSE "prod_alive"
           made == IF r = "prod" THEN "newcons" ELSE "newprod"
       IN  IF PartnerAlive(flag)
           THEN /\ Return(r, "create", "None", 0)
                /\ UNCHANGED <<spsc, bufq, endpoints>>
           ELSE /\ endpoints.newprod + endpoints.newcons < MaxCreate
                /\ SetFlag(flag, TRUE)
                /\ endpoints' = [endpoints EXCEPT ![o] = @ + 1,
                                                  ![made] = @ + 1]
                /\ Return(r, "create", "Some", 0)
    /\ UNCHANGED <<auxVars, coreVars, segqVars, gcVars, qkind, blocks, bufdata, sent,
                   recvd, drops, wild>>

\* the steps of the producer endpoint
SpscProducer ==
    \/ \E op \in {"try_push", "try_construct"} : SpPushAlive(op)
    \/ SpPushSeg \/ SpPushBlock \/ SpPushWrite \/ SpPushPublish \/ PushErr
    \/ \E op \in {"try_push", "try_construct"} : BqPushCheck(op)
    \/ BqPushWrite \/ BqPushPublish

\* the steps of the consumer endpoint and of the queue's Drop
SpscConsumer ==
    \/ SpPopCheck("try_pop") \/ SpPopCheck("drop")
    \/ SpPopSeg \/ SpPopRead \/ PopReturnNone
    \/ BqPopCheck("try_pop") \/ BqPopCheck("drop")
    \/ BqPopRead \/ BqPopPublish

\* SpscQueue::new(1) or SpscBufferQueue::new(n), both endpoints alive
InitSpsc ==
    /\ InitCore
    /\ plist = Enrolled(NClients)
    /\ script = [t \in Threads |-> <<>>]
    /\ InitGc
    /\ InitList
    /\ InitGlobal
    /\ InitUnits
    /\ \/ qkind = "SpscQueue" /\ bufq = BufferQueueNew(1)
       \/ qkind = "SpscBufferQueue"
          /\ \E n \in 1..MaxBufN : bufq = BufferQueueNew(n)
    /\ spsc = SpscQueueNew
    /\ blocks = [a \in BlockAddrs |->
                    IF a = 1 THEN [SpscSegmentNew EXCEPT !.live = TRUE]
                    ELSE SpscSegmentNew]
    /\ bufdata = [i \in 0..MaxBufN |-> 0]
    /\ endpoints = [prod |-> 1, cons |-> 1, newprod |-> 0, newcons |-> 0]
    /\ spc = [prod |-> "idle", cons |-> "idle"]
    /\ sloc = [prod |-> SNoLoc, cons |-> SNoLoc]
    /\ sent = <<>>
    /\ recvd = <<>>
    /\ drops = [v \in SValues |-> 0]
    /\ wild = FALSE

NextSpsc ==
    \/ SpscProducer
    \/ SpscConsumer
    \/ DropEndpoint("prod")
    \/ DropEndpoint("cons")
    \/ CreatePartner("prod")
    \/ CreatePartner("cons")

SpecSpsc == InitSpsc /\ [][NextSpsc]_vars

(* ------------------------------- Next ---------------------------------- *)
\* threads that run container operations and migrate their garbage
Mutators == {1}

\* the steps inside pin, try_collect, migrate_garbage and the guard's drop
EpochInternal(t) ==
    \/ EnterLoad(t) \/ EnterStore(t) \/ Exit(t)
    \/ CollectScan(t) \/ CollectScanEpoch(t)
    \/ CollectCas(t) \/ CollectStore(t) \/ CollectGlobal(t)
    \/ MigrateCur(t) \/ MigrateLoad(t) \/ MigrateNew(t)

\* the steps inside a call on the stack
StackInternal(t) ==
    \/ PushLoad(t) \/ PushCas(t)
    \/ PopLoad(t) \/ PopNext(t) \/ PopCas(t)

\* the steps inside a call on the queue
MsqInternal(t) ==
    \/ QPushTail(t) \/ QPushNext(t) \/ QPushCas(t) \/ QPushSwing(t)
    \/ QPopHead(t) \/ QPopNext(t) \/ QPopTail(t) \/ QPopHelp(t) \/ QPopCas(t)

\* the steps inside a call, whoever started it
Internal(t) == EpochInternal(t) \/ StackInternal(t)

\* the general client: any enrolled thread pins, unpins and collects at will,
\* the mutators also push, pop and migrate
Next ==
    \/ \E t \in Threads : EpochInternal(t)
    \/ \E t \in Threads : StackInternal(t)
    \/ \E t \in Threads : globalEpoch < MaxEpoch /\ CollectLoad(t)
    \/ \E t \in Threads : InList(t, plist) /\ Pin(t) /\ UNCHANGED script
    \/ \E t \in Threads : InList(t, plist) /\ Unpin(t) /\ UNCHANGED script
    \/ \E t \in Threads : InList(t, plist) /\ TryGc(t) /\ UNCHANGED script
    \/ \E t \in Mutators : nextVal <= MaxPush /\ Push(t) /\ UNCHANGED script
    \/ \E t \in Mutators : Pop(t) /\ UNCHANGED script
    \/ \E t \in Mutators : Migrate(t) /\ UNCHANGED script

Spec == Init /\ [][Next]_vars

(* ------------------------ single-threaded client ----------------------- *)
\* the only thread there is
Main == 1

InitSeq ==
    /\ InitBase
    /\ plist = Enrolled(1)
    /\ script = [t \in Threads |-> <<>>]

\* one thread pushes, pops, asks is_empty, pins, loads the head under its
\* guard, collects and migrates in any order
NextSeq ==
    \/ EpochInternal(Main)
    \/ StackInternal(Main)
    \/ IsEmptyLoad(Main)
    \/ globalEpoch < MaxEpoch + 1 /\ CollectLoad(Main)
    \/ Pin(Main) /\ UNCHANGED script
    \/ Unpin(Main) /\ UNCHANGED script
    \/ LoadRef(Main) /\ UNCHANGED script
    \/ TryGc(Main) /\ UNCHANGED script
    \/ Migrate(Main) /\ UNCHANGED script
    \/ nextVal <= MaxPush + 1 /\ Push(Main) /\ UNCHANGED script
    \/ Pop(Main) /\ UNCHANGED script
    \/ IsEmpty(Main) /\ UNCHANGED script

SpecSeq == InitSeq /\ [][NextSeq]_vars

(* -------------------------- scripted client ---------------------------- *)
\* thread t makes the next call of its script
Scripted(t, op) ==
    /\ script[t] /= <<>>
    /\ Head(script[t]) = op
    /\ script' = [script EXCEPT ![t] = Tail(@)]

\* One thread builds a two-element stack, pops both elements, migrates its
\* garbage and pushes again; a second thread pops once; a third thread
\* collects once.
Scripts ==
    [t \in Threads |->
        CASE t = 1 -> <<"push", "push", "try_gc", "pop", "pop", "pin", "migrate",
                        "unpin", "push", "pop", "pin", "migrate", "unpin",
                        "try_gc", "try_gc">>
          [] t = 2 -> <<"pop">>
          [] t = 3 -> <<"try_gc">>
          [] OTHER -> <<>>]

InitScript ==
    /\ InitBase
    /\ plist = Enrolled(3)
    /\ script = Scripts

NextScript ==
    \/ \E t \in Threads : EpochInternal(t)
    \/ \E t \in Threads : StackInternal(t)
    \/ \E t \in Threads : CollectLoad(t)
    \/ \E t \in Threads : Scripted(t, "pin") /\ Pin(t)
    \/ \E t \in Threads : Scripted(t, "unpin") /\ Unpin(t)
    \/ \E t \in Threads : Scripted(t, "try_gc") /\ TryGc(t)
    \/ \E t \in Threads : Scripted(t, "migrate") /\ Migrate(t)
    \/ \E t \in Threads : Scripted(t, "push") /\ Push(t)
    \/ \E t \in Threads : Scripted(t, "pop") /\ Pop(t)

SpecScript == InitScript /\ [][NextScript]_vars

(* ----------------------- scripted queue client ------------------------- *)
\* One thread pushes two values, pops one, migrates its garbage, pushes a
\* third value and pops until it has called try_pop four times; a second
\* thread calls try_pop once; a third thread collects once.
MsqScripts ==
    [t \in Threads |->
        CASE t = 1 -> <<"qpush", "qpush", "try_gc", "qpop", "pin", "migrate",
                        "unpin", "qpush", "qpop", "qpop", "qpop">>
          [] t = 2 -> <<"qpop">>
          [] t = 3 -> <<"try_gc">>
          [] OTHER -> <<>>]

InitMsq ==
    /\ InitBase
    /\ plist = Enrolled(3)
    /\ script = MsqScripts

NextMsq ==
    \/ \E t \in Threads : EpochInternal(t)
    \/ \E t \in Threads : MsqInternal(t)
    \/ \E t \in Threads : CollectLoad(t)
    \/ \E t \in Threads : Scripted(t, "pin") /\ Pin(t)
    \/ \E t \in Threads : Scripted(t, "unpin") /\ Unpin(t)
    \/ \E t \in Threads : Scripted(t, "try_gc") /\ TryGc(t)
    \/ \E t \in Threads : Scripted(t, "migrate") /\ Migrate(t)
    \/ \E t \in Threads : Scripted(t, "qpush") /\ QPush(t)
    \/ \E t \in Threads : Scripted(t, "qpop") /\ QPop(t)

SpecMsq == InitMsq /\ [][NextMsq]_vars

(* ---------------------- scripted SegQueue client ----------------------- *)
\* the steps inside a call on the SegQueue
SegqInternal(t) ==
    \/ SqPushTail(t) \/ SqPushHigh(t) \/ SqPushAdd(t) \/ SqPushWrite(t)
    \/ SqPushReady(t) \/ SqPushNext(t) \/ SqPushSetTail(t)
    \/ SqPopHead(t) \/ SqPopLow(t) \/ SqPopHigh(t) \/ SqPopCas(t)
    \/ SqPopReady(t) \/ SqPopAdv(t) \/ SqPopRead(t) \/ SqPopNext(t)

\* Two producers push three values between them, which is more than one
\* segment holds; all three threads consume.
SegqScripts ==
    [t \in Threads |->
        CASE t = 1 -> <<"sqpush", "sqpush", "sqpop">>
          [] t = 2 -> <<"sqpush", "sqpop">>
          [] t = 3 -> <<"sqpop", "sqpop">>
          [] OTHER -> <<>>]

\* One producer pushes three increasing values, two threads consume.
SegqSpmcScripts ==
    [t \in Threads |->
        CASE t = 1 -> <<"sqpush", "sqpush", "sqpush">>
          [] t = 2 -> <<"sqpop", "sqpop">>
          [] t = 3 -> <<"sqpop", "sqpop">>
          [] OTHER -> <<>>]

InitSegq ==
    /\ InitBase
    /\ plist = Enrolled(3)
    /\ script \in {SegqScripts, SegqSpmcScripts}

NextSegq ==
    \/ \E t \in Threads : EnterLoad(t)
    \/ \E t \in Threads : EnterStore(t)
    \/ \E t \in Threads : Exit(t)
    \/ \E t \in Threads : SegqInternal(t)
    \/ \E t \in Threads : Scripted(t, "sqpush") /\ SqPush(t)
    \/ \E t \in Threads : Scripted(t, "sqpop") /\ SqPop(t)

SpecSegq == InitSegq /\ [][NextSegq]_vars

\* the steps of thread t in the scripted SegQueue client
SegqThread(t) ==
    \/ EnterLoad(t) \/ EnterStore(t) \/ Exit(t) \/ SegqInternal(t)
    \/ Scripted(t, "sqpush") /\ SqPush(t)
    \/ Scripted(t, "sqpop") /\ SqPop(t)

\* every thread keeps being scheduled
SegqFair == \A t \in Threads : WF_vars(SegqThread(t))

\* Two producers push three values over a segment boundary, one thread
\* consumes twice.
SegqFairScripts ==
    [t \in Threads |->
        CASE t = 1 -> <<"sqpush", "sqpush">>
          [] t = 2 -> <<"sqpush">>
          [] t = 3 -> <<"sqpop", "sqpop">>
          [] OTHER -> <<>>]

InitSegqFair ==
    /\ InitBase
    /\ plist = Enrolled(3)
    /\ script = SegqFairScripts

SpecSegqFair == InitSegqFair /\ [][NextSegq]_vars /\ SegqFair

\* The same client with one producer, every try_pop noting what was pushed
\* before it started.
InitSegqNoting ==
    /\ InitBase
    /\ plist = Enrolled(3)
    /\ script = SegqSpmcScripts

NextSegqNoting ==
    \/ \E t \in Threads : EnterLoad(t)
    \/ \E t \in Threads : EnterStore(t)
    \/ \E t \in Threads : Exit(t)
    \/ \E t \in Threads : SegqInternal(t)
    \/ \E t \in Threads : Scripted(t, "sqpush") /\ SqPush(t)
    \/ \E t \in Threads : Scripted(t, "sqpop") /\ SqPopNoting(t)

SpecSegqNoting == InitSegqNoting /\ [][NextSegqNoting]_vars

(* --------------------------- GC control scopes ------------------------- *)
\* is_gc_enabled
is_gc_enabled(t) == try_gc[t]

\* __get_gc_guard_for(turn_on), as the scope macros call it on entry: the
\* guard keeps the flag's value, the flag takes the scope's; turn_on and
\* left (an inner scope has been left) are kept for the properties
GetGcGuardFor(t, turn_on) ==
    /\ Len(gcscopes[t]) < MaxScopes
    /\ gcscopes' = [gcscopes EXCEPT ![t] =
                       Append(@, [previous |-> try_gc[t],
                                  turn_on |-> turn_on, left |-> FALSE])]
    /\ try_gc' = [try_gc EXCEPT ![t] = turn_on]
    /\ UNCHANGED <<auxVars, coreVars, segqVars, spscVars>>

\* a guard that re-enables the gc whatever it found on entry
Restored_enable(gcc) == TRUE

\* the value Drop for GCControl stores
Restored(gcc) == gcc.previous

\* Drop for GCControl at the end of the innermost scope
DropGcControl(t) ==
    /\ gcscopes[t] # <<>>
    /\ LET n == Len(gcscopes[t])
           outer == SubSeq(gcscopes[t], 1, n - 1)
       IN  /\ try_gc' = [try_gc EXCEPT ![t] = Restored(gcscopes[t][n])]
           /\ gcscopes' = [gcscopes EXCEPT ![t] =
                  IF n = 1 THEN <<>>
                  ELSE [outer EXCEPT ![n - 1].left = TRUE]]
    /\ UNCHANGED <<auxVars, coreVars, segqVars, spscVars>>

NextGc ==
    \/ \E t \in Threads : GetGcGuardFor(t, TRUE)
    \/ \E t \in Threads : GetGcGuardFor(t, FALSE)
    \/ \E t \in Threads : DropGcControl(t)

SpecGc == Init /\ [][NextGc]_vars

(* ------------------------ pinning without the gc ----------------------- *)
\* GC_MIGRATE_THRESH: usize = GC_THRESH * 4
GC_MIGRATE_THRESH == GC_THRESH * 4

\* epoch::pin_nogc() -> _pin_nogc(p, false)
PinNogc(t) ==
    /\ pc[t] = "idle"
    /\ guards[t] < MaxNest
    /\ enter_nogc(t, [NoLoc EXCEPT !.op = "pin_nogc"])
    /\ UNCHANGED <<extVars, msqVars, globalEpoch, do_global, gbag, epoch, garbage, refs,
                   stackVars, heapVars, histVars, casWins>>

\* epoch::pin_waitfree() -> _pin_nogc(p, true)
PinWaitfree(t) ==
    /\ pc[t] = "idle"
    /\ guards[t] < MaxNest
    /\ enter_nogc(t, [NoLoc EXCEPT !.op = "pin_waitfree"])
    /\ UNCHANGED <<extVars, msqVars, globalEpoch, do_global, gbag, epoch, garbage, refs,
                   stackVars, heapVars, histVars, casWins>>

\* Participant::enter_nogc: global::get().epoch.load(Relaxed) after the fence
NogcLoad(t) ==
    /\ pc[t] = "nogc_load"
    /\ Goto(t, "nogc_store", [loc[t] EXCEPT !.global_epoch = globalEpoch])
    /\ UNCHANGED <<extVars, script, msqVars, ebrVars, guards, refs, stackVars, heapVars, histVars, casWins>>

\* Participant::enter_nogc: adopt the global epoch, leave the bags alone
NogcStore(t) ==
    /\ pc[t] = "nogc_store"
    /\ epoch' = [epoch EXCEPT ![t] = loc[t].global_epoch]
    /\ guards' = [guards EXCEPT ![t] = @ + 1]
    /\ Goto(t, "nogc_check", loc[t])
    /\ UNCHANGED <<extVars, script, msqVars, globalEpoch, do_global, gbag, in_critical, garbage, refs,
                   stackVars, heapVars, histVars, casWins>>

\* _pin_nogc: if !waitfree && p.garbage_size() > GC_MIGRATE_THRESH
ShouldMigrate(waitfree, size) == ~waitfree /\ size > GC_MIGRATE_THRESH

\* _pin_nogc after p.enter_nogc(): migrate the local garbage or return
NogcCheck(t) ==
    /\ pc[t] = "nogc_check"
    /\ IF ShouldMigrate(loc[t].op = "pin_waitfree", garbage_size(garbage[t]))
       THEN migrate_garbage(t, loc[t])
       ELSE /\ Goto(t, AfterPinPc(loc[t].op), loc[t])
            /\ UNCHANGED <<gbag, garbage>>
    /\ UNCHANGED <<extVars, script, msqVars, globalEpoch, do_global, epoch, in_critical, guards, refs,
                   stackVars, heapVars, histVars, casWins>>

\* epoch::try_local_gc() -> _run_gc(false): p.enter() and no try_collect
TryLocalGc(t) ==
    /\ pc[t] = "idle"
    /\ run_gc(t, "try_local_gc")
    /\ UNCHANGED <<extVars, msqVars, globalEpoch, do_global, gbag, epoch, garbage, refs,
                   stackVars, heapVars, histVars, casWins>>

\* _run_gc returns None to the caller of try_gc / try_local_gc
RunGcNone(t) ==
    /\ pc[t] = "rungc_none"
    /\ Goto(t, "idle", NoLoc)
    /\ UNCHANGED <<extVars, script, msqVars, ebrVars, guards, refs, stackVars, heapVars, histVars, casWins>>

\* the steps inside _pin_nogc and the None return of _run_gc
NogcInternal(t) == NogcLoad(t) \/ NogcStore(t) \/ NogcCheck(t) \/ RunGcNone(t)

\* One thread fills its local bags and then pins in every way and asks for
\* collections; a second thread collects; the first thread enters and
\* leaves a disable_gc scope between any two of its calls.
NogcScripts ==
    [t \in Threads |->
        CASE t = 1 -> <<"push", "pop", "pin_waitfree", "unpin", "try_gc",
                        "try_local_gc", "pin", "unpin", "pin_nogc", "unpin">>
          [] t = 2 -> <<"try_gc", "try_gc">>
          [] OTHER -> <<>>]

InitNogc ==
    /\ InitBase
    /\ plist = Enrolled(2)
    /\ script = NogcScripts

NextNogc ==
    \/ \E t \in Threads : EpochInternal(t)
    \/ \E t \in Threads : StackInternal(t)
    \/ \E t \in Threads : NogcInternal(t)
    \/ \E t \in Threads : CollectLoad(t)
    \/ \E t \in Mutators : pc[t] = "idle" /\ gcscopes[t] = <<>> /\ GetGcGuardFor(t, FALSE)
    \/ \E t \in Mutators : pc[t] = "idle" /\ DropGcControl(t)
    \/ \E t \in Threads : Scripted(t, "pin") /\ Pin(t)
    \/ \E t \in Threads : Scripted(t, "pin_nogc") /\ PinNogc(t)
    \/ \E t \in Threads : Scripted(t, "pin_waitfree") /\ PinWaitfree(t)
    \/ \E t \in Threads : Scripted(t, "unpin") /\ Unpin(t)
    \/ \E t \in Threads : Scripted(t, "try_gc") /\ TryGc(t)
    \/ \E t \in Threads : Scripted(t, "try_local_gc") /\ TryLocalGc(t)
    \/ \E t \in Threads : Scripted(t, "push") /\ Push(t)
    \/ \E t \in Threads : Scripted(t, "pop") /\ Pop(t)

SpecNogc == InitNogc /\ [][NextNogc]_vars

(* ----------------------- epoch wrap-around client ---------------------- *)
\* the largest value of the epoch counter
EpochMax == EpochMod - 1

\* One thread pushes and pops, pins twice and migrates its garbage; a second
\* thread collects. The run starts one collection before the counter
\* reaches its largest value.
WrapScripts ==
    [t \in Threads |->
        CASE t = 1 -> <<"push", "pop", "pin", "unpin", "pin", "migrate", "unpin">>
          [] t = 2 -> <<"try_gc", "try_gc", "try_gc", "try_gc">>
          [] OTHER -> <<>>]

InitWrap ==
    /\ InitEpochs(EpochMax - 1)
    /\ InitOther
    /\ plist = Enrolled(2)
    /\ script = WrapScripts

SpecWrap == InitWrap /\ [][NextScript]_vars

(* --------------------------- participant list -------------------------- *)
\* the threads that stay alive and run try_collect
Collectors == {1, 2}

\* the nodes a walk from the head visits; the next field of a reclaimed
\* node holds no defined pointer, so the walk ends there
RECURSIVE ReachFrom(_, _)
ReachFrom(n, seen) ==
    IF n = Null \/ n \in seen THEN seen
    ELSE IF pfreed[n] THEN seen \cup {n}
    ELSE ReachFrom(pnodes[n].next, seen \cup {n})

Linked == ReachFrom(participants.head, {})

\* the threads inside a traversal
Traversing == {t \in PNodes : iter[t].pc /= "none"}

\* enroll: head = self.head.load(Relaxed); participant.next.store_shared(head)
EnrollLoad(t) ==
    /\ life[t] = "new"
    /\ pnodes' = [pnodes EXCEPT ![t].next = participants.head]
    /\ life' = [life EXCEPT ![t] = "enroll_cas"]
    /\ UNCHANGED <<coreVars, segqVars, spscVars, gcVars, globVars, unitVars, unlinkedIn, participants, handed, pfreed,
                   ppins, iter>>

\* enroll: self.head.cas_and_ref(head, participant, Release); retry on Err
EnrollCas(t) ==
    /\ life[t] = "enroll_cas"
    /\ IF participants.head = pnodes[t].next
       THEN /\ participants' = [participants EXCEPT !.head = t]
            /\ life' = [life EXCEPT ![t] = "live"]
       ELSE /\ UNCHANGED participants
            /\ life' = [life EXCEPT ![t] = "new"]
    /\ UNCHANGED <<coreVars, segqVars, spscVars, gcVars, globVars, unitVars, unlinkedIn, pnodes, handed, pfreed, ppins,
                   iter>>

\* the traversals under way stop being undisturbed once thread t exits or
\* starts a traversal; a thread that exits is no longer owed to them
Disturbed(it, t) ==
    [u \in PNodes |-> IF u /= t /\ it[u].pc /= "none"
                      THEN [it[u] EXCEPT !.quiet = FALSE, !.owed = @ \ {t}]
                      ELSE it[u]]

\* thread exit: the participant's active flag becomes false
ThreadExit(t) ==
    /\ life[t] = "live"
    /\ iter[t].pc = "none"
    /\ pnodes' = [pnodes EXCEPT ![t].active = FALSE]
    /\ life' = [life EXCEPT ![t] = "dead"]
    /\ iter' = Disturbed(iter, t)
    /\ UNCHANGED <<coreVars, segqVars, spscVars, gcVars, globVars, unitVars, unlinkedIn, participants, handed, pfreed,
                   ppins>>

\* try_collect: global::get().participants.iter(guard); owed are the active
\* participants enrolled by now that the traversal has not yielded yet,
\* quiet says that no thread has exited or begun to traverse since
IterNew(t) ==
    /\ life[t] = "live"
    /\ iter[t].pc = "none"
    /\ iter[t].runs < MaxRuns
    /\ iter' = [Disturbed(iter, t) EXCEPT ![t] =
                   [NoIter EXCEPT !.pc = "it_load", !.is_first = TRUE,
                                  !.runs = iter[t].runs + 1,
                                  !.owed = {n \in PNodes : life[n] = "live"},
                                  !.quiet = Traversing = {}]]
    /\ UNCHANGED <<coreVars, segqVars, spscVars, gcVars, globVars, unitVars, unlinkedIn, participants, pnodes, handed,
                   pfreed, ppins, life>>

\* the pointer in the field the Iter's next refers to
AtomicAt(at) == IF at = Null THEN participants.head ELSE pnodes[at].next

\* Iter::next: was_first = self.is_first; cur = self.next.load(..)
IterLoad(t) ==
    /\ iter[t].pc = "it_load"
    /\ iter' = [iter EXCEPT ![t].was_first = iter[t].is_first,
                            ![t].is_first = FALSE,
                            ![t].cur = AtomicAt(iter[t].at),
                            ![t].pc = "it_active"]
    /\ UNCHANGED <<coreVars, segqVars, spscVars, gcVars, globVars, unitVars, unlinkedIn, participants, pnodes, handed,
                   pfreed, ppins, life>>

\* a read of a field of node n: undefined once n has been reclaimed
ReadOf(n, value, any) == IF pfreed[n] THEN any ELSE {value}

\* Iter::next: while let Some(n) = cur { if !n.active.load(Relaxed) .. else
\* { self.next = &n.next; return Some(&n) } }
IterActive(t) ==
    /\ iter[t].pc = "it_active"
    /\ IF iter[t].cur = Null
       THEN iter' = [iter EXCEPT ![t].pc = "it_end"]
       ELSE \E active \in ReadOf(iter[t].cur, pnodes[iter[t].cur].active, BOOLEAN) :
              IF ~active
              THEN iter' = [iter EXCEPT ![t].n = iter[t].cur, ![t].pc = "it_succ"]
              ELSE iter' = [iter EXCEPT ![t].at = iter[t].cur,
                                        ![t].n = iter[t].cur,
                                        ![t].owed = @ \ {iter[t].cur},
                                        ![t].pc = "it_body"]
    /\ UNCHANGED <<coreVars, segqVars, spscVars, gcVars, globVars, unitVars, unlinkedIn, participants, pnodes, handed,
                   pfreed, ppins, life>>

\* Iter::next: if !was_first { .. unlink .. }
WritesFirst(was_first) == ~was_first

\* Iter::next: cur = n.next.load(Relaxed); if !was_first { if !self.can_write ..
IterSucc(t) ==
    /\ iter[t].pc = "it_succ"
    /\ \E nx \in ReadOf(iter[t].n, pnodes[iter[t].n].next, PNodes \cup {Null}) :
         iter' = [iter EXCEPT ![t].cur = nx,
                              ![t].pc = IF ~WritesFirst(iter[t].was_first) THEN "it_active"
                                        ELSE IF iter[t].can_write THEN "it_store"
                                        ELSE "it_flag"]
    /\ UNCHANGED <<coreVars, segqVars, spscVars, gcVars, globVars, unitVars, unlinkedIn, participants, pnodes, handed,
                   pfreed, ppins, life>>

\* Iter::next: if self.writable.load(Relaxed) { continue }
IterFlag(t) ==
    /\ iter[t].pc = "it_flag"
    /\ iter' = [iter EXCEPT ![t].pc = IF participants.writable THEN "it_active"
                                      ELSE "it_cas"]
    /\ UNCHANGED <<coreVars, segqVars, spscVars, gcVars, globVars, unitVars, unlinkedIn, participants, pnodes, handed,
                   pfreed, ppins, life>>

\* Iter::next: self.can_write = !self.writable.compare_and_swap(false, true)
IterCas(t) ==
    /\ iter[t].pc = "it_cas"
    /\ IF ~participants.writable
       THEN /\ participants' = [participants EXCEPT !.writable = TRUE]
            /\ iter' = [iter EXCEPT ![t].can_write = TRUE, ![t].pc = "it_store"]
       ELSE /\ UNCHANGED participants
            /\ iter' = [iter EXCEPT ![t].can_write = FALSE, ![t].pc = "it_active"]
    /\ UNCHANGED <<coreVars, segqVars, spscVars, gcVars, globVars, unitVars, unlinkedIn, pnodes, handed, pfreed, ppins,
                   life>>

\* Iter::next: self.next.store_shared(cur, SeqCst)
IterStore(t) ==
    /\ iter[t].pc = "it_store"
    /\ IF iter[t].at = Null
       THEN /\ participants' = [participants EXCEPT !.head = iter[t].cur]
            /\ UNCHANGED pnodes
       ELSE /\ pnodes' = [pnodes EXCEPT ![iter[t].at].next = iter[t].cur]
            /\ UNCHANGED participants
    /\ iter' = [iter EXCEPT ![t].pc = "it_unlinked"]
    /\ UNCHANGED <<coreVars, segqVars, spscVars, gcVars, globVars, unitVars, unlinkedIn, handed, pfreed, ppins, life>>

\* Iter::next: self.guard.unlinked(n); the node is reclaimed once the
\* threads pinned now have unpinned
IterUnlinked(t) ==
    /\ iter[t].pc = "it_unlinked"
    /\ handed' = [handed EXCEPT ![iter[t].n] = Min(2, @ + 1)]
    /\ ppins' = [ppins EXCEPT ![iter[t].n] = IF handed[iter[t].n] = 0 THEN Traversing ELSE @]
    /\ iter' = [iter EXCEPT ![t].pc = "it_active"]
    /\ UNCHANGED <<coreVars, segqVars, spscVars, gcVars, globVars, unitVars, unlinkedIn, participants, pnodes, pfreed,
                   life>>

\* the Iter of a traversal that is over
Dropped(it) == [NoIter EXCEPT !.runs = it.runs]

\* the traversal of thread t is over: its guard no longer protects a node
Unpinned(pp, t) == [n \in PNodes |-> pp[n] \ {t}]

\* Iter::next: if self.can_write { self.writable.store(false, Release) }
Releases(can_write) == can_write

\* Iter::next at the end of the list: release the flag, return None
IterEnd(t) ==
    /\ iter[t].pc = "it_end"
    /\ participants' = [participants EXCEPT
                           !.writable = IF Releases(iter[t].can_write) THEN FALSE ELSE @]
    /\ iter' = [iter EXCEPT ![t].pc = "it_done"]
    /\ UNCHANGED <<coreVars, segqVars, spscVars, gcVars, globVars, unitVars, unlinkedIn, pnodes, handed, pfreed, ppins,
                   life>>

\* try_collect: the for loop is over, the Iter is dropped
IterDone(t) ==
    /\ iter[t].pc = "it_done"
    /\ iter' = [iter EXCEPT ![t] = Dropped(iter[t])]
    /\ ppins' = Unpinned(ppins, t)
    /\ UNCHANGED <<coreVars, segqVars, spscVars, gcVars, globVars, unitVars, unlinkedIn, participants, pnodes, handed,
                   pfreed, life>>

\* try_collect: if p.in_critical.load(Relaxed) > 0 && p.epoch.load(Relaxed)
\* != cur_epoch { return false }; the Iter is dropped where it stands
IterBody(t) ==
    /\ iter[t].pc = "it_body"
    /\ \E blocked \in BOOLEAN :
         IF blocked
         THEN /\ iter' = [iter EXCEPT ![t] = Dropped(iter[t])]
              /\ ppins' = Unpinned(ppins, t)
         ELSE /\ iter' = [iter EXCEPT ![t].pc = "it_load"]
              /\ UNCHANGED ppins
    /\ UNCHANGED <<coreVars, segqVars, spscVars, gcVars, globVars, unitVars, unlinkedIn, participants, pnodes, handed,
                   pfreed, life>>

\* a later collection runs the destructor of a node passed to unlinked,
\* once no thread pinned at that time is still pinned
ReclaimNode(n) ==
    /\ handed[n] > 0
    /\ ~pfreed[n]
    /\ ppins[n] = {}
    /\ pfreed' = [pfreed EXCEPT ![n] = TRUE]
    /\ UNCHANGED <<coreVars, segqVars, spscVars, gcVars, globVars, unitVars, unlinkedIn, participants, pnodes, handed,
                   ppins, life, iter>>

NextList ==
    \/ \E t \in PNodes : EnrollLoad(t)
    \/ \E t \in PNodes : EnrollCas(t)
    \/ \E t \in PNodes \ Collectors : ThreadExit(t)
    \/ \E t \in Collectors : IterNew(t)
    \/ \E t \in Collectors : IterLoad(t)
    \/ \E t \in Collectors : IterActive(t)
    \/ \E t \in Collectors : IterSucc(t)
    \/ \E t \in Collectors : IterFlag(t)
    \/ \E t \in Collectors : IterCas(t)
    \/ \E t \in Collectors : IterStore(t)
    \/ \E t \in Collectors : IterUnlinked(t)
    \/ \E t \in Collectors : IterEnd(t)
    \/ \E t \in Collectors : IterDone(t)
    \/ \E t \in Collectors : IterBody(t)
    \/ \E n \in PNodes : ReclaimNode(n)

SpecList == Init /\ [][NextList]_vars

(* ------------------------------ claims --------------------------------- *)
\* the Shared pointers thread t holds under a guard that is still alive
Held(t) ==
    refs[t] \cup (IF pc[t] \in {"pop_next", "pop_cas", "qpop_next", "qpop_tail",
                                 "qpop_help", "qpop_cas"}
                 THEN {loc[t].h} ELSE {})

\* the positions inside Participant::try_collect
CollectPcs == {"tc_load", "tc_scan", "tc_scan_epoch", "tc_cas", "tc_store",
               "tc_gcollect"}

\* the calls that go through epoch::pin()
PinOps == {"pin", "push", "pop", "is_empty"}

\* thread t takes a step
Steps(t) == pc'[t] /= pc[t] \/ loc'[t] /= loc[t]

\* nothing is rotated, migrated or freed and no epoch moves
NoCollection(t) ==
    /\ globalEpoch' = globalEpoch
    /\ epoch'[t] = epoch[t]
    /\ garbage' = garbage
    /\ gbag' = gbag
    /\ alloc' = alloc

\* thread t is about to store the epoch read by the pin that moved its
\* counter from 0 to 1
FirstPinStore(t) == pc[t] = "enter_store" /\ in_critical[t] = 1

\* C1: no node that a thread loaded under a guard it still holds has been
\* freed (no use-after-free), under every interleaving.
C1_NoUseAfterFree == \A t \in Threads : \A n \in Held(t) : alloc[n]

\* C2: no allocation has its destructor run more than once, whichever bag
\* it went through.
C2_AtMostOnceFree == \A a \in Heap : dtor[a] <= 1

C4_NestedPinOnlyCounts ==
    [][\A t \in Threads :
          (loc[t].op \in PinOps /\ in_critical[t] > 1 /\ pc[t] \in CollectPcs
             /\ Steps(t))
          => NoCollection(t)]_vars

\* C5: the critical-section counter equals the number of live guards of the
\* thread (so N nested guards dropped in LIFO order restore it), it is never
\* negative, and it is 0 exactly when the thread holds no guard.
C5_CounterMatchesGuards ==
    \A t \in Threads :
        /\ in_critical[t] >= 0
        /\ in_critical[t] =
             guards[t] + (IF pc[t] \in {"enter_load", "enter_store"} THEN 1 ELSE 0)

\* C5 witness: two nested guards are live
C5_Witness == \E t \in Threads : guards[t] = 2 /\ in_critical[t] = 2

C7_EpochAdvancesByOneCas ==
    /\ [](\A e \in 0..(EpochMod - 1) : casWins[e] <= 1)
    /\ [][/\ globalEpoch' /= globalEpoch =>
               \E t \in Threads :
                   /\ pc[t] = "tc_cas" /\ pc'[t] = "tc_store"
                   /\ loc[t].cur_epoch = globalEpoch
                   /\ globalEpoch' = wrapping_add(globalEpoch, 1)
          /\ \A t \in Threads :
               (pc[t] = "tc_cas" /\ Steps(t) /\ globalEpoch /= loc[t].cur_epoch)
               => /\ pc'[t] = AfterCollectPc(loc[t].op)
                  /\ (loc[t].op = "try_gc" => loc'[t].ret = "false")
                  /\ NoCollection(t)]_vars

\* C7 witness: two threads read the same E, one has won the compare-and-swap
\* and the other is about to lose it
C7_Witness ==
    \E t \in Threads : \E u \in Threads :
        /\ t /= u
        /\ loc[t].cur_epoch = loc[u].cur_epoch
        /\ pc[t] = "tc_store" /\ pc[u] = "tc_cas"
        /\ globalEpoch = wrapping_add(loc[u].cur_epoch, 1)

\* C8: every value a consumer's try_pop returns was pushed, and it is larger
\* than the value the consumer received before from the same producer (a
\* producer pushes increasing values, so this is FIFO order per producer).
C8_MsqFifoPerProducer ==
    \A t \in Threads :
        (pc[t] = "exit" /\ loc[t].op = "qpop" /\ loc[t].v /= 0)
        => /\ qprod[loc[t].v] /= 0
           /\ loc[t].v > qlast[t][qprod[loc[t].v]]

\* the values in the nodes reachable from a in at most fuel steps
RECURSIVE Chain(_, _)
Chain(a, fuel) ==
    IF a = Null \/ fuel = 0 THEN {} ELSE {data[a]} \cup Chain(next[a], fuel - 1)

\* the values some pop has returned
Popped == {v \in Values : popCount[v] > 0}

\* no call is in progress
Quiescent == \A t \in Threads : pc[t] = "idle"

\* C9: in a single-threaded run every pop returns the most recently pushed
\* value not yet popped, it returns None exactly when there is none, and
\* is_empty answers true exactly then.
C9_TreiberLifoSingleThread ==
    pc[Main] = "exit" =>
        /\ loc[Main].op = "pop" =>
               loc[Main].v = (IF shadow = <<>> THEN 0 ELSE Head(shadow))
        /\ loc[Main].op = "is_empty" => ((loc[Main].v = 1) <=> (shadow = <<>>))

\* C9 witness: with two values on the stack, a pop returns the newer one
\* from a node whose address had been freed and handed out again
C9_Witness ==
    /\ pc[Main] = "exit" /\ loc[Main].op = "pop"
    /\ Len(shadow) = 2 /\ loc[Main].v = Head(shadow)
    /\ gen[loc[Main].h] = 2

\* C10: under concurrent push and pop with address reuse no pop's CAS on
\* head succeeds against a node that was freed and pushed again at the same
\* address, every pushed value is returned by at most one pop, and once all
\* calls have returned the values popped and the values still in the stack
\* are exactly the values pushed.
C10_NoStaleCasNoLossNoDuplicate ==
    /\ ~staleCas
    /\ \A v \in Values : popCount[v] <= 1
    /\ Quiescent =>
          /\ Popped \cup Chain(head, MaxNodes) = pushed
          /\ Popped \cap Chain(head, MaxNodes) = {}

\* where value v sits in the SegQueue, counted in slots from the first
\* segment on (0: v is in no slot)
SlotOf(v) ==
    IF \E a \in SegAddrs : \E k \in 0..(SEG_SIZE - 1) : segs[a].data[k] = v
    THEN LET a == CHOOSE a \in SegAddrs :
                      \E k \in 0..(SEG_SIZE - 1) : segs[a].data[k] = v
             k == CHOOSE k \in 0..(SEG_SIZE - 1) : segs[a].data[k] = v
         IN (a - 1) * SEG_SIZE + k + 1
    ELSE 0

\* the values in slots that no try_pop has claimed
Unclaimed ==
    {v \in Values : \E a \in SegAddrs : \E k \in 0..(SEG_SIZE - 1) :
        segs[a].data[k] = v /\ k >= segs[a].low}

\* C11: two values pushed by the same thread one call after the other sit
\* in slots in that order (also across a segment boundary), and a value a
\* consumer's try_pop returns is later in its producer's push order than
\* every value the consumer received from that producer before.
C11_SegQueueFifoPerProducer ==
    /\ \A a \in pushed : \A b \in pushed :
         (qprod[a] = qprod[b] /\ a < b) => SlotOf(a) < SlotOf(b)
    /\ \A t \in Threads :
         (pc[t] = "exit" /\ loc[t].op = "sqpop" /\ loc[t].v /= 0)
         => /\ loc[t].v \in pushed
            /\ loc[t].v > qlast[t][qprod[loc[t].v]]

\* C11 witness: a consumer that received a value from the first segment
\* receives a later value of the same producer from the second segment
C11_Witness ==
    \E t \in Threads :
        /\ pc[t] = "exit" /\ loc[t].op = "sqpop" /\ loc[t].v /= 0
        /\ loc[t].h = 2
        /\ qlast[t][qprod[loc[t].v]] /= 0

\* C12: no value is returned by two try_pops, the slots claimed so far are
\* a prefix of the slots filled (none is skipped), once every call has
\* returned the values popped and the values left in the queue are exactly
\* the values pushed, and with a single producer each consumer's values are
\* strictly increasing.
C12_SegQueueExactlyOnce ==
    /\ \A v \in Values : popCount[v] <= 1
    /\ \A a \in pushed : \A b \in pushed :
         (SlotOf(a) < SlotOf(b) /\ b \notin Unclaimed) => a \notin Unclaimed
    /\ Quiescent =>
          /\ Popped \cup Unclaimed = pushed
          /\ Popped \cap Unclaimed = {}
    /\ \A t \in Threads : \A p \in Threads :
         (/\ pc[t] = "exit" /\ loc[t].op = "sqpop" /\ loc[t].v /= 0
          /\ \A v \in pushed : qprod[v] = p)
         => \A u \in Threads : loc[t].v > qlast[t][u]

\* C12 witness: every call has returned, two consumers have each received
\* values of the one producer, and all three values were popped
C12_Witness ==
    /\ Quiescent
    /\ \A v \in Values : popCount[v] = 1 /\ qprod[v] = 1
    /\ qlast[2][1] /= 0 /\ qlast[3][1] /= 0


\* the values received so far are the first values sent, in order
FifoPrefix ==
    /\ Len(recvd) <= Len(sent)
    /\ \A i \in 1..Len(recvd) : recvd[i] = sent[i]

\* C13: on both SPSC queues the i-th successful try_pop returns the value
\* of the i-th successful try_push, across segment boundaries of SpscQueue
\* and across index wrap-around of SpscBufferQueue.
C13_SpscStrictFifo == qkind \in {"SpscQueue", "SpscBufferQueue"} => FifoPrefix

\* C14: SpscQueue::new(1) is bounded: once SEG_SIZE - 1 values have been
\* pushed and none popped, try_push returns Err and enqueues nothing, so
\* an unpopped queue never holds more than SEG_SIZE - 1 values.
C14_SpscQueueBounded ==
    (qkind = "SpscQueue" /\ spsc.head = 1)
        => spsc.tail - spsc.head <= SPSC_SEG_SIZE - 1

\* number of values in the ring: the distance from head to tail
BufCount == (bufq.tail - bufq.head + bufq.size) % bufq.size

\* SpscBufferQueue::capacity
capacity == bufq.size - 1

\* C15: on SpscBufferQueue::new(n) a try_push goes on to enqueue exactly
\* when fewer than n values are in the ring; with n values in it the call
\* returns the value as Err and leaves tail, head and the stored values
\* unchanged; capacity() is n whatever the ring holds.
C15_BufferPushExactlyWhenRoom ==
    [][qkind = "SpscBufferQueue" =>
        /\ (spc.prod = "idle" /\ spc'.prod = "bp_write")
               => BufCount < bufq.cap
        /\ (spc.prod = "idle" /\ spc'.prod = "push_err")
               => /\ BufCount = bufq.cap
                  /\ bufq'.tail = bufq.tail /\ bufq'.head = bufq.head
                  /\ bufdata' = bufdata /\ sent' = sent
        /\ (spc.prod = "push_err" /\ spc'.prod = "idle")
               => /\ sloc'.prod.ret = "Err" /\ sloc'.prod.v = sloc.prod.v
                  /\ bufq' = bufq /\ bufdata' = bufdata /\ sent' = sent
        /\ (spc.prod = "bp_publish" /\ spc'.prod = "idle")
               => sloc'.prod.ret = "Ok" /\ BufCount' = BufCount + 1
        /\ capacity' = bufq'.cap
    ]_vars

\* a try_push has returned Err on a ring of capacity MaxBufN that is full
\* across the wrap-around of its indices
C15_Witness ==
    /\ qkind = "SpscBufferQueue"
    /\ bufq.cap = MaxBufN
    /\ spc.prod = "idle" /\ sloc.prod.ret = "Err"
    /\ bufq.tail < bufq.head
    /\ BufCount = bufq.cap

\* C16: a try_pop of either SPSC queue, called by the consumer or by the
\* queue's Drop, decides for None only in its index check and only when
\* head equals the producer's tail at that moment, so every value sent
\* has been taken; SpscQueue::try_pop never leaves through its 'next
\* segment is null' exit.
C16_PopNoneOnlyWhenEmpty ==
    [][/\ (spc'.cons = "pop_none" /\ spc.cons # "pop_none")
              => /\ spc.cons = "idle"
                 /\ Q.head = Q.tail
                 /\ Len(sent) = Len(recvd)
       /\ (spc'.cons = "dropped" /\ spc.cons # "dropped")
              => /\ spc.cons = "drop_loop"
                 /\ Q.head = Q.tail
    ]_vars

\* a try_pop of the SpscQueue has decided for None with head on a segment
\* boundary and no next segment linked, after values crossed a boundary
C16_Witness ==
    /\ qkind = "SpscQueue"
    /\ spc.cons = "pop_none"
    /\ Len(recvd) >= SPSC_SEG_SIZE
    /\ spsc.head % SPSC_SEG_SIZE = 0
    /\ blocks[spsc.head_block].next = Null

\* the flags agree with the endpoints that exist, one of each at most
LifecycleInv ==
    /\ endpoints.prod <= 1 /\ endpoints.cons <= 1
    /\ Q.prod_alive = (endpoints.prod = 1)
    /\ Q.cons_alive = (endpoints.cons = 1)

\* a create call of role r returns None exactly when the partner exists,
\* and otherwise returns the one new partner
CreateStep(r, o) ==
    (spc[r] = "idle" /\ sloc'[r] # sloc[r] /\ sloc'[r].op = "create")
        => /\ (sloc'[r].ret = "None") = (endpoints[o] = 1)
           /\ (sloc'[r].ret = "Some") = (endpoints[o] = 0)
           /\ endpoints'[o] = 1

\* C17: while the partner endpoint exists the liveness query is true and
\* create_consumer / create_producer returns None; after the partner is
\* dropped the query is false, the first create call returns a new
\* endpoint and makes the query true, a second one returns None; at most
\* one producer and one consumer endpoint exist at any time.
C17_EndpointLifecycle ==
    /\ [](qkind \in {"SpscQueue", "SpscBufferQueue"} => LifecycleInv)
    /\ [][CreateStep("prod", "cons") /\ CreateStep("cons", "prod")]_vars

\* after create_consumer made a consumer, a further create_consumer has
\* returned None
C17_Witness ==
    /\ qkind \in {"SpscQueue", "SpscBufferQueue"}
    /\ endpoints.newcons >= 1
    /\ spc.prod = "idle"
    /\ sloc.prod.op = "create" /\ sloc.prod.ret = "None"
    /\ endpoints.cons = 1 /\ endpoints.prod = 1

\* C18: with the consumer endpoint of a SpscQueue dropped, try_push and
\* try_construct of BoundedProducer decide for Err, hand back the value or
\* the constructor (which has not run, nothing is written) and leave tail,
\* tail_block and the segments unchanged; the values sent earlier stay in
\* the queue while no consumer exists and keep their order for a consumer
\* made afterwards.
C18_DeadConsumerPush ==
    /\ [](qkind = "SpscQueue" => FifoPrefix)
    /\ [][qkind = "SpscQueue" =>
            /\ (spc.prod = "idle" /\ spc'.prod \in {"sp_seg", "push_err"}
                /\ endpoints.cons = 0)
                   => /\ spc'.prod = "push_err"
                      /\ spsc' = spsc /\ blocks' = blocks /\ sent' = sent
            /\ (spc.prod = "push_err" /\ spc'.prod = "idle")
                   => /\ sloc'.prod.ret = "Err"
                      /\ sloc'.prod.v = sloc.prod.v
                      /\ sloc'.prod.op = sloc.prod.op
                      /\ spsc' = spsc /\ blocks' = blocks /\ sent' = sent
            /\ (endpoints.cons = 0 /\ endpoints.prod = 1)
                   => spsc'.head = spsc.head /\ recvd' = recvd
         ]_vars

\* a try_construct has returned Err on a SpscQueue without consumer that
\* still holds values
C18_Witness ==
    /\ qkind = "SpscQueue"
    /\ endpoints.cons = 0 /\ endpoints.prod = 1
    /\ spc.prod = "idle"
    /\ sloc.prod.op = "try_construct" /\ sloc.prod.ret = "Err"
    /\ Len(sent) > Len(recvd)

\* C19: once an SPSC queue has been dropped, the destructor of every value
\* that was sent and never popped has run exactly once, the queue has run
\* no destructor on a value it handed to a consumer, and none on memory
\* that holds no value.
C19_DropRunsEachDestructorOnce ==
    spc.cons = "dropped"
        => /\ \A i \in 1..Len(sent) :
                  drops[sent[i]] = IF i <= Len(recvd) THEN 0 ELSE 1
           /\ ~wild

\* the flag a thread reads inside its innermost scope, or outside of all
ScopeValue(t) ==
    IF gcscopes[t] = <<>> THEN TRUE
    ELSE gcscopes[t][Len(gcscopes[t])].turn_on

\* C20: a thread's gc flag is true outside of all scopes and inside a
\* scope has the value of the innermost enable / disable scope, for every
\* nesting of scopes left in LIFO order; leaving a scope stores the value
\* the flag had when the scope was entered.
C20_GcScopesRestore ==
    /\ [](\A t \in Threads : is_gc_enabled(t) = ScopeValue(t))
    /\ [][\A t \in Threads :
             Len(gcscopes'[t]) < Len(gcscopes[t])
                 => try_gc'[t] = gcscopes[t][Len(gcscopes[t])].previous
       ]_vars

\* thread 1 is in an enable scope nested in a disable scope and has just
\* left a scope nested in the enable scope
C20_Witness ==
    /\ Len(gcscopes[1]) = 2
    /\ ~gcscopes[1][1].turn_on
    /\ gcscopes[1][2].turn_on /\ gcscopes[1][2].left
    /\ is_gc_enabled(1)

\* the calls that pin or collect: pin, pin_nogc, pin_waitfree, try_gc and
\* try_local_gc
GcCalls == {"pin", "pin_nogc", "pin_waitfree", "try_gc", "try_local_gc"}

\* thread t takes a step of one of these calls, the first step included
InGcCall(t) == Steps(t) /\ (loc[t].op \in GcCalls \/ loc'[t].op \in GcCalls)

C22_CleanupComplete ==
    \A t \in PNodes :
        (iter[t].pc = "it_done" /\ iter[t].quiet) =>
            \A n \in Linked : life[n] /= "dead"

\* C26: every enrolled active participant is reachable from the head, and
\* a traversal that returns None has yielded every participant that was
\* enrolled when it began and is still active.
C26_NoParticipantLost ==
    /\ \A n \in PNodes : life[n] = "live" => n \in Linked
    /\ \A t \in PNodes : iter[t].pc = "it_done" => iter[t].owed = {}

\* C27: no node is passed to Guard::unlinked more than once.
C27_UnlinkedOnce == \A n \in PNodes : handed[n] <= 1

\* C28: a node that has been passed to Guard::unlinked and is not reachable
\* from the head does not become reachable again.
C28_NoRelink ==
    [][\A n \in PNodes :
          (handed[n] > 0 /\ n \notin Linked) => n \notin Linked']_vars

\* C29: at most one traversal has write privileges, and whenever no
\* traversal is under way the writable flag is false.
C29_WritableReleased ==
    /\ Cardinality({t \in PNodes : iter[t].can_write}) <= 1
    /\ Traversing = {} => ~participants.writable

\* thread t has completed a pin (its local epoch is stored) and is still
\* pinned
PinCompleted(t) ==
    /\ in_critical[t] > 0
    /\ pc[t] \notin {"enter_load", "enter_store", "nogc_load", "nogc_store"}

\* how far the local epoch of thread t is behind the global epoch
EpochLag(t) == wrapping_sub(globalEpoch, epoch[t])

WrapEpochs == {EpochMax, 0, 1}

\* thread t runs the global collect of a try_collect that installed
\* new_epoch, and the global epoch is still new_epoch
CollectsAt(t, new_epoch) ==
    /\ pc[t] = "tc_gcollect"
    /\ pc'[t] /= "tc_gcollect"
    /\ wrapping_add(loc[t].cur_epoch, 1) = new_epoch
    /\ globalEpoch = new_epoch

\* C24: the global bag freed by a try_collect that installs an epoch around
\* the wrap of the counter holds no item unlinked during the current or the
\* immediately preceding global epoch.
C24_WrapSafe ==
    [][\A t \in Threads : \A e \in WrapEpochs :
          CollectsAt(t, e) =>
              \A i \in 1..Len(gbag[CollectIndex(e)].items) :
                  unlinkedIn[gbag[CollectIndex(e)].items[i]]
                      \notin {e, wrapping_sub(e, 1)}]_vars

\* items of sequence s
Items(s) == {s[i] : i \in 1..Len(s)}

\* the step of migrate_garbage that inserts local.old, taken with a
\* non-empty old bag
MovesOld(t) == pc[t] # "mg_cur" /\ pc'[t] = "mg_cur" /\ garbage[t].old # <<>>

\* the step of migrate_garbage that inserts local.cur
MovesCur(t) == pc[t] = "mg_cur" /\ pc'[t] = "mg_load" /\ loc[t].local.cur # <<>>

\* C25: migrate_garbage of a participant whose local epoch is e, e = 0
\* included, puts the items of its old bag into the global bag (e + 2) mod 3
\* and the items of its cur bag into the global bag e mod 3, and the two
\* bags are different ones.
C25_MigrateIndices ==
    [][\A t \in Threads :
          /\ MovesOld(t) =>
                /\ Items(garbage[t].old) \subseteq Items(gbag'[(epoch[t] + 2) % 3].items)
                /\ \A i \in 0..2 : i # (epoch[t] + 2) % 3 => gbag'[i] = gbag[i]
                /\ MigrateOldIndex(epoch[t]) # MigrateCurIndex(epoch[t])
          /\ MovesCur(t) =>
                /\ Items(loc[t].local.cur) \subseteq
                       Items(gbag'[loc[t].cur_epoch % 3].items)
                /\ \A i \in 0..2 : i # loc[t].cur_epoch % 3 => gbag'[i] = gbag[i]]_vars

(* ------------------------ global state singleton ----------------------- *)
\* get: let mut addr = EPOCH.load(Relaxed); if addr == 0 { .. }
GetLoad(t) ==
    /\ gget[t].pc = "out"
    /\ gget[t].calls < MaxCalls
    /\ gget' = [gget EXCEPT ![t].addr = EPOCH,
                            ![t].pc = IF EPOCH = 0 THEN "g_alloc" ELSE "g_ret"]
    /\ UNCHANGED <<coreVars, segqVars, spscVars, gcVars, listVars, unitVars, unlinkedIn,
                   EPOCH, boxes, installs>>

\* get: let raw = Box::into_raw(Box::new(EpochState::new())); the allocator
\* returns any address that is not live
GetAlloc(t) ==
    /\ gget[t].pc = "g_alloc"
    /\ \E a \in BoxAddrs :
          /\ ~boxes[a]
          /\ boxes' = [boxes EXCEPT ![a] = TRUE]
          /\ gget' = [gget EXCEPT ![t].raw = a, ![t].pc = "g_cas"]
    /\ UNCHANGED <<coreVars, segqVars, spscVars, gcVars, listVars, unitVars, unlinkedIn,
                   EPOCH, installs>>

\* a store in place of the compare_and_swap
CasInstalls_always(current) == TRUE

\* compare_and_swap(0, raw, Relaxed) writes only when EPOCH is 0
CasInstalls(current) == current = 0

\* get: addr = EPOCH.compare_and_swap(0, raw as usize, Relaxed);
\* if addr != 0 { free raw } else { addr = raw as usize }
GetCas(t) ==
    /\ gget[t].pc = "g_cas"
    /\ IF CasInstalls(EPOCH)
       THEN /\ EPOCH' = gget[t].raw
            /\ installs' = installs + 1
       ELSE UNCHANGED <<EPOCH, installs>>
    /\ gget' = [gget EXCEPT ![t].addr = IF EPOCH # 0 THEN EPOCH ELSE gget[t].raw,
                            ![t].pc = IF EPOCH # 0 THEN "g_free" ELSE "g_ret"]
    /\ UNCHANGED <<coreVars, segqVars, spscVars, gcVars, listVars, unitVars, unlinkedIn, boxes>>

\* get: let boxed = unsafe { Box::from_raw(raw) }; mem::drop(boxed)
GetFree(t) ==
    /\ gget[t].pc = "g_free"
    /\ boxes' = [boxes EXCEPT ![gget[t].raw] = FALSE]
    /\ gget' = [gget EXCEPT ![t].freed = @ \cup {gget[t].raw}, ![t].pc = "g_ret"]
    /\ UNCHANGED <<coreVars, segqVars, spscVars, gcVars, listVars, unitVars, unlinkedIn,
                   EPOCH, installs>>

\* get: unsafe { &*(addr as *mut EpochState) }
GetReturn(t) ==
    /\ gget[t].pc = "g_ret"
    /\ gget' = [gget EXCEPT ![t] = [NoGet EXCEPT !.ret = gget[t].addr,
                                                 !.freed = gget[t].freed,
                                                 !.calls = gget[t].calls + 1]]
    /\ UNCHANGED <<coreVars, segqVars, spscVars, gcVars, listVars, unitVars, unlinkedIn,
                   EPOCH, boxes, installs>>

NextGlobal ==
    \/ \E t \in Threads : GetLoad(t)
    \/ \E t \in Threads : GetAlloc(t)
    \/ \E t \in Threads : GetCas(t)
    \/ \E t \in Threads : GetFree(t)
    \/ \E t \in Threads : GetReturn(t)

SpecGlobal == Init /\ [][NextGlobal]_vars

\* the allocation thread t made in this call and still owns
Pending(t) == IF gget[t].pc \in {"g_cas", "g_free"} THEN {gget[t].raw} ELSE {}

\* C30: global::get() is a singleton: at most one allocation is ever
\* installed and EPOCH holds it from then on, every call that has returned
\* returned the installed allocation, the installed allocation is never
\* freed, and the allocations alive are the installed one and those their
\* makers have not yet offered or freed: a thread that loses the
\* compare_and_swap frees its own allocation and no other.
C30_Singleton ==
    /\ installs <= 1
    /\ (installs = 0) <=> (EPOCH = 0)
    /\ EPOCH # 0 => boxes[EPOCH]
    /\ \A t \in Threads :
          /\ gget[t].ret # 0 => gget[t].ret = EPOCH
          /\ gget[t].calls > 0 => gget[t].ret # 0
          /\ EPOCH \notin gget[t].freed
    /\ \A a \in BoxAddrs :
          boxes[a] <=> (a = EPOCH \/ \E t \in Threads : a \in Pending(t))
    /\ \A t, u \in Threads : t # u => Pending(t) \cap Pending(u) = {}

\* three threads raced in their first calls, one installed its allocation,
\* the two others lost the compare_and_swap and freed their own, and every
\* thread has made a later call as well
C30_Witness ==
    /\ EPOCH # 0
    /\ Cardinality({t \in Threads : gget[t].freed # {}}) = 2
    /\ \A t \in Threads : gget[t].calls = MaxCalls /\ gget[t].ret = EPOCH

(* ------------------------------ ConcBag -------------------------------- *)
\* threads inside ConcBag::collect
Collecting == {t \in Threads : cbt[t].pc \in {"c_swap", "c_walk"}}

\* the Bags of the nodes linked from address a, following at most k links
RECURSIVE CbChain(_, _)
CbChain(a, k) ==
    IF a = Null \/ k = 0 THEN {}
    ELSE {cbag.node[a].data} \cup CbChain(cbag.node[a].next, k - 1)

\* the Bags in the stack
InStack == CbChain(cbag.head, MaxBags)

\* insert: let n = Box::into_raw(Box::new(Node { data: t, next: null }))
CbInsert(t) ==
    /\ cbt[t].pc = "out"
    /\ cbhist.nextBag <= MaxBags
    /\ \E a \in CbAddrs :
          /\ ~cbag.node[a].live
          /\ cbag' = [cbag EXCEPT !.node[a] =
                         [data |-> cbhist.nextBag, next |-> Null, live |-> TRUE]]
          /\ cbt' = [cbt EXCEPT ![t].pc = "i_load", ![t].n = a]
    /\ cbhist' = [cbhist EXCEPT !.nextBag = @ + 1]
    /\ UNCHANGED <<hostVars, lcVars, spmcVars>>

\* insert: let head = self.head.load(Acquire); (*n).next.store(head, Relaxed)
CbInsertLoad(t) ==
    /\ cbt[t].pc = "i_load"
    /\ cbag' = [cbag EXCEPT !.node[cbt[t].n].next = cbag.head]
    /\ cbt' = [cbt EXCEPT ![t].pc = "i_cas", ![t].head = cbag.head]
    /\ UNCHANGED <<hostVars, lcVars, spmcVars, cbhist>>

\* insert: if self.head.compare_and_swap(head, n, Release) == head { break }
CbInsertCas(t) ==
    /\ cbt[t].pc = "i_cas"
    /\ IF cbag.head = cbt[t].head
       THEN /\ cbag' = [cbag EXCEPT !.head = cbt[t].n]
            /\ cbt' = [u \in Threads |->
                          IF u = t THEN [NoCb EXCEPT !.calls = cbt[t].calls]
                          ELSE IF u \in Collecting
                          THEN [cbt[u] EXCEPT !.during =
                                   @ \cup {cbag.node[cbt[t].n].data}]
                          ELSE cbt[u]]
       ELSE /\ cbt' = [cbt EXCEPT ![t].pc = "i_load"]
            /\ UNCHANGED cbag
    /\ UNCHANGED <<hostVars, lcVars, spmcVars, cbhist>>

\* a load followed by a store of null in place of the swap
SwapTakes_loaded(loaded, current) == loaded

\* self.head.swap(null, Acquire) returns the head it replaces
SwapTakes(loaded, current) == current

\* collect: let mut head = self.head.load(Relaxed); if head != null { .. }
CbCollect(t) ==
    /\ cbt[t].pc = "out"
    /\ cbt[t].calls < MaxCollects
    /\ cbt' = [cbt EXCEPT ![t] =
                  IF cbag.head = Null
                  THEN [NoCb EXCEPT !.calls = cbt[t].calls + 1]
                  ELSE [NoCb EXCEPT !.pc = "c_swap", !.head = cbag.head,
                                    !.calls = cbt[t].calls]]
    /\ UNCHANGED <<hostVars, lcVars, spmcVars, cbag, cbhist>>

\* collect: head = self.head.swap(ptr::null_mut(), Acquire)
CbCollectSwap(t) ==
    /\ cbt[t].pc = "c_swap"
    /\ cbag' = [cbag EXCEPT !.head = Null]
    /\ cbt' = [cbt EXCEPT ![t].pc = "c_walk",
                          ![t].head = SwapTakes(cbt[t].head, cbag.head)]
    /\ UNCHANGED <<hostVars, lcVars, spmcVars, cbhist>>

\* collect: while head != null { let mut n = Box::from_raw(head);
\* n.data.collect(); head = n.next.load(Relaxed) }, one round of the loop
\* or its exit
CbCollectWalk(t) ==
    /\ cbt[t].pc = "c_walk"
    /\ LET h == cbt[t].head
       IN IF h # Null
          THEN /\ cbhist' = [cbhist EXCEPT !.destroyed[cbag.node[h].data] =
                                Min(2, @ + 1)]
               /\ cbag' = [cbag EXCEPT !.node[h].live = FALSE]
               /\ cbt' = [cbt EXCEPT ![t].head = cbag.node[h].next,
                                     ![t].mine = @ \cup {cbag.node[h].data}]
          ELSE /\ cbt' = [cbt EXCEPT ![t] =
                             [NoCb EXCEPT !.calls = cbt[t].calls + 1]]
               /\ UNCHANGED <<cbag, cbhist>>
    /\ UNCHANGED <<hostVars, lcVars, spmcVars>>

NextBag ==
    \/ \E t \in Threads : CbInsert(t)
    \/ \E t \in Threads : CbInsertLoad(t)
    \/ \E t \in Threads : CbInsertCas(t)
    \/ \E t \in Threads : CbCollect(t)
    \/ \E t \in Threads : CbCollectSwap(t)
    \/ \E t \in Threads : CbCollectWalk(t)

SpecBag == Init /\ [][NextBag]_vars

\* thread t's collect call returns in this step
CbReturns(t) == cbt[t].pc \in {"c_swap", "c_walk"} /\ cbt'[t].pc = "out"

\* thread t's collect call finds the stack empty in this step
CbFindsEmpty(t) ==
    cbt[t].pc = "out" /\ cbt'[t].calls = cbt[t].calls + 1 /\ cbag.head = Null

\* the Bags a running collect call has taken off the stack and not yet
\* destroyed
Taken == UNION {CbChain(cbt[t].head, MaxBags) : t \in {u \in Threads : cbt[u].pc = "c_walk"}}

\* C31 as stated: no Bag is destroyed twice; when a collect call returns,
\* every Bag inserted while it ran has been destroyed by this very call or
\* is in the stack; a collect call that finds the stack empty swaps nothing
\* and destroys nothing.
C31_ConcBag ==
    [][/\ \A b \in Bags : cbhist'.destroyed[b] <= 1
       /\ \A t \in Threads :
             /\ CbReturns(t) =>
                   \A b \in cbt[t].during : b \in cbt[t].mine \/ b \in InStack'
             /\ CbFindsEmpty(t) => UNCHANGED <<cbag, cbhist>>]_vars

\* C31 amended: no Bag is destroyed twice; when a collect call returns,
\* every Bag inserted while it ran has been destroyed, by this or by another
\* collect call, or is in the list another running collect call took off
\* the stack and is destroying, or is in the stack; a collect call that
\* finds the stack empty swaps nothing and destroys nothing.
C31_ConcBagAmended ==
    [][/\ \A b \in Bags : cbhist'.destroyed[b] <= 1
       /\ \A t \in Threads :
             /\ CbReturns(t) =>
                   \A b \in cbt[t].during :
                       cbhist.destroyed[b] = 1 \/ b \in Taken' \/ b \in InStack'
             /\ CbFindsEmpty(t) => UNCHANGED <<cbag, cbhist>>]_vars

\* a collect call has returned after destroying a Bag that was inserted
\* while it ran, another Bag inserted meanwhile is still in the stack, and a
\* later collect call found the stack empty
C31_Witness ==
    /\ \E t \in Threads : cbt[t].pc = "c_walk" /\ cbt[t].head = Null
                           /\ cbt[t].during \cap cbt[t].mine # {}
                           /\ cbt[t].during \cap InStack # {}
    /\ \E u \in Threads : cbt[u].pc = "out" /\ cbt[u].calls > 0

\* thread t stores the queue's head pointer in this step
StoresHead(t) == pc[t] = "sq_pop_adv" /\ pc'[t] = "sq_pop_read"

\* the last segment linked into the queue
LastSegment == CHOOSE a \in SegAddrs :
                   /\ a >= segq.tail
                   /\ segs[a].next = Null
                   /\ \A b \in segq.tail..(a - 1) : segs[b].next = b + 1

\* what C32 says of a step that changes the head pointer, but for the
\* place of the tail
HeadStep ==
    segq'.head # segq.head =>
       /\ \E t \in Threads :
             /\ StoresHead(t)
             /\ loc[t].h = segq.head
             /\ loc[t].low = SEG_SIZE - 1
       /\ segq'.head = segs[segq.head].next
       /\ segq'.head # Null
       /\ segq'.head = segq.head + 1

\* C32 as stated: the head pointer is stored away from a segment only by
\* the consumer that claimed the segment's final slot, with the segment's
\* published successor, so it moves forward one segment at a time, never
\* to null, and never past the tail segment.
C32_HeadAdvance ==
    [][HeadStep /\ segq'.head <= segq'.tail]_vars

\* C32 amended: as C32, but the head pointer is never past the last segment
\* linked into the queue, which is the tail segment or its successor: the
\* tail pointer may still designate the segment the head has just left.
C32_HeadAdvanceAmended ==
    [][/\ HeadStep
       /\ segq'.head <= LastSegment'
       /\ LastSegment' <= segq'.tail + 1]_vars

\* the consumer of the final slot of the first segment has moved the head
\* to the second segment, and a value has been popped from there
C32_Witness ==
    /\ segq.head = 2
    /\ segs[1].low = SEG_SIZE
    /\ segs[2].low > 0

\* thread t has claimed a slot and its try_pop is past the wait for the
\* slot's ready-bit
PastReady(t) == pc[t] \in {"sq_pop_adv", "sq_pop_read"}

\* C33: a try_pop that is past its wait reads a slot whose producer has
\* written the value and set the ready-bit; a slot whose ready-bit is set
\* holds its value; and the slots claimed by consumers are slots claimed by
\* producers: low never exceeds min(high, SEG_SIZE).
C33_ReadAfterReady ==
    /\ \A t \in Threads :
          PastReady(t) =>
             /\ segs[loc[t].h].ready[loc[t].low]
             /\ segs[loc[t].h].data[loc[t].low] \in pushed
    /\ \A a \in SegAddrs :
          /\ segs[a].low <= Min(segs[a].high, SEG_SIZE)
          /\ \A k \in 0..(SEG_SIZE - 1) :
                segs[a].ready[k] => segs[a].data[k] \in pushed

\* a consumer has claimed a slot that its producer has claimed and not yet
\* written and waits for the ready-bit, while another consumer has read a
\* value
C33_Witness ==
    /\ \E t \in Threads : \E p \in Threads :
          /\ pc[t] = "sq_pop_ready"
          /\ pc[p] = "sq_push_write"
          /\ loc[p].tl = loc[t].h /\ loc[p].i = loc[t].low
          /\ ~segs[loc[t].h].ready[loc[t].low]
    /\ \E v \in Values : popCount[v] = 1

\* how often try_pop has passed segment a to Guard::unlinked: the store of
\* self.head is not followed by guard.unlinked(head), and no other line of
\* seg_queue.rs calls it
SegHanded(a) == 0

\* the head pointer has moved past segment a
Drained(a) == a < segq.head

\* C34: every segment the head pointer has moved past has been handed to
\* Guard::unlinked exactly once by the time the try_pop that moved the head
\* has returned.
C34_DrainedSegmentsUnlinked ==
    \A a \in SegAddrs :
        (Drained(a) /\ \A t \in Threads : pc[t] \notin {"sq_pop_adv", "sq_pop_read", "exit"})
        => SegHanded(a) = 1

\* thread t's try_pop has returned None
ReturnedNone(t) == pc[t] = "exit" /\ loc[t].op = "sqpop" /\ loc[t].v = 0

\* C35: a try_pop that returns None leaves no value unclaimed whose push had
\* returned before the try_pop started, whichever segment holds the value.
C35_NoneOnlyIfEmpty ==
    \A t \in Threads : ReturnedNone(t) => loc[t].before \cap Unclaimed = {}

\* a try_pop has found nothing to claim in the segment it read as head, is
\* about to test head.next, and a value pushed before the call started lies
\* unclaimed in the next segment; the consumer of the final slot has not
\* moved the head pointer yet
C35_Witness ==
    /\ \E t \in Threads : \E v \in Values :
          /\ pc[t] = "sq_pop_next"
          /\ loc[t].h = 1
          /\ v \in loc[t].before \cap Unclaimed
          /\ SlotOf(v) > SEG_SIZE
    /\ segq.head = 1
    /\ \E u \in Threads : pc[u] = "sq_pop_adv"

\* thread t is inside a push or a try_pop
InSegqCall(t) == pc[t] # "idle"

\* C36: with every thread scheduled again and again, every push and every
\* try_pop returns: the run reaches the state in which every thread has
\* made all its calls and is in none.
C36_SegQueueProgress ==
    <>(\A t \in Threads : script[t] = <<>> /\ ~InSegqCall(t))

\* the three spins at once: the producer of a segment's final slot has
\* claimed the slot and not written it, another push finds the tail segment
\* full, and a try_pop that claimed the final slot waits for its ready-bit
C36_Witness ==
    \E a \in Threads : \E b \in Threads : \E c \in Threads :
        /\ pc[a] = "sq_push_write" /\ loc[a].i = SEG_SIZE - 1
        /\ pc[b] = "sq_push_high" /\ loc[b].tl = loc[a].tl
        /\ segs[loc[b].tl].high >= SEG_SIZE
        /\ pc[c] = "sq_pop_ready" /\ loc[c].h = loc[a].tl
        /\ loc[c].low = SEG_SIZE - 1

\* C37: every index at which SpscBufferQueue writes (try_construct) or
\* reads (try_pop) a slot is smaller than the number of slots that new(size)
\* allocated for data_block.
C37_BufferIndexInBlock ==
    qkind = "SpscBufferQueue" =>
        /\ spc.prod \in {"bp_write", "bp_publish"} => sloc.prod.idx < bufq.cap
        /\ spc.cons \in {"bc_read", "bc_publish"} => sloc.cons.idx < bufq.cap

\* the values the consumer side has read: received by a consumer endpoint
\* or popped and dropped by the loop of Drop
Consumed == {recvd[i] : i \in 1..Len(recvd)} \cup {v \in SValues : drops[v] > 0}

\* the consumer frees segment a in this step
FreesSegment(a) == blocks[a].live /\ ~blocks'[a].live

\* the segments the producer's call in progress is about to write: the
\* slot of its value, and at a segment boundary the next field
ProducerTargets ==
    CASE spc.prod = "sp_seg" -> {spsc.tail_block}
      [] spc.prod = "sp_block" -> {sloc.prod.blk}
      [] spc.prod = "sp_write" -> {sloc.prod.blk}
      [] OTHER -> {}

\* C38: the consumer frees a segment only when it has read every value
\* pushed into it, the producer has stored the segment's next pointer and
\* has moved its tail block on; and the producer's writes of a slot or of a
\* next field go to segments that are not freed.
C38_SegmentReclamation ==
    [][qkind = "SpscQueue" =>
          /\ \A a \in BlockAddrs :
                FreesSegment(a) =>
                   /\ \A k \in 0..(SPSC_SEG_SIZE - 1) :
                         blocks[a].data[k] = 0 \/ blocks[a].data[k] \in Consumed
                   /\ blocks[a].next # Null
                   /\ spsc.tail_block # a
                   /\ a \notin ProducerTargets
          /\ \A a \in ProducerTargets' : blocks'[a].live
          /\ blocks'[spsc'.tail_block].live]_vars

\* the consumer has freed the first segment after reading its values, the
\* producer is writing in the second one, and both a value of the first and
\* a value of the second segment have been received
C38_Witness ==
    /\ qkind = "SpscQueue"
    /\ spsc.head_block # 1
    /\ spsc.head_block = spsc.tail_block
    /\ spc.prod = "sp_write"
    /\ Len(recvd) >= SPSC_SEG_SIZE

(* --------------------------- Local::collect ---------------------------- *)
LcItems == 1..MaxItems

\* the elements of S in increasing order
RECURSIVE SortedSeq(_)
SortedSeq(S) ==
    IF S = {} THEN <<>>
    ELSE LET m == CHOOSE x \in S : \A y \in S : x <= y
         IN <<m>> \o SortedSeq(S \ {m})

\* the bag holding the items that f puts in place k
BagOf(f, k) == SortedSeq({i \in LcItems : f[i] = k})

\* a Local with some of the items in its three bags and in up to two
\* deferred bags; add_bag defers empty bags as well
LocalOf(f, empties) ==
    [old |-> BagOf(f, "old"), cur |-> BagOf(f, "cur"), new |-> BagOf(f, "new"),
     pending |-> IF empties THEN <<BagOf(f, "p1"), BagOf(f, "p2")>>
                 ELSE SelectSeq(<<BagOf(f, "p1"), BagOf(f, "p2")>>,
                                LAMBDA b : b # <<>>)]

\* a Local and a budget, before the call
InitLc ==
    /\ InitEpochs(0) /\ InitHeap /\ InitNoSpsc /\ InitGc /\ InitList
    /\ InitGlobal /\ InitBag /\ InitNoSpmc
    /\ plist = Enrolled(NClients)
    /\ script = [t \in Threads |-> <<>>]
    /\ \E f \in [LcItems -> {"none", "old", "cur", "new", "p1", "p2"}] :
       \E empties \in BOOLEAN :
       \E b \in Budgets :
          lcase = [NoCase EXCEPT !.g0 = LocalOf(f, empties),
                                 !.g = LocalOf(f, empties),
                                 !.budget = b, !.done = FALSE]

\* one call of Local::collect(budget)
LcCollect ==
    /\ ~lcase.done
    /\ LET r == LocalCollect(lcase.g, lcase.budget)
       IN lcase' = [lcase EXCEPT !.g = r.g, !.freed = r.freed,
                                 !.ret = r.budget, !.done = TRUE]
    /\ UNCHANGED <<hostVars, bagVars, spmcVars>>

SpecLc == InitLc /\ [][LcCollect]_vars

\* the items of a sequence of bags
RECURSIVE PendingItems(_)
PendingItems(w) ==
    IF w = <<>> THEN {} ELSE Items(Head(w)) \cup PendingItems(Tail(w))

\* the number of items a Local holds, deferred ones included
Holds(g) == garbage_size(g) + PendingSize(g.pending)

\* the items a Local holds
HeldItems(g) ==
    Items(g.old) \cup Items(g.cur) \cup Items(g.new) \cup PendingItems(g.pending)

\* C39: a call of Local::collect(budget) frees at most budget items and
\* returns the budget less the number freed; the items freed come from the
\* old bag or the pending list; the cur and new bags become old and cur
\* untouched and new is empty; the items of the old bag that were not freed
\* are in the pending list; and the items held before are the items freed
\* and the items held after, each once.
C39_BudgetedCollect ==
    lcase.done =>
        /\ Len(lcase.freed) <= lcase.budget
        /\ lcase.ret = lcase.budget - Len(lcase.freed)
        /\ Items(lcase.freed) \subseteq
               Items(lcase.g0.old) \cup PendingItems(lcase.g0.pending)
        /\ lcase.g.old = lcase.g0.cur
        /\ lcase.g.cur = lcase.g0.new
        /\ lcase.g.new = <<>>
        /\ Items(lcase.g0.old) \ Items(lcase.freed)
               \subseteq PendingItems(lcase.g.pending)
        /\ HeldItems(lcase.g0) = Items(lcase.freed) \cup HeldItems(lcase.g)
        /\ Holds(lcase.g0) = Len(lcase.freed) + Holds(lcase.g)
        /\ Cardinality(Items(lcase.freed)) = Len(lcase.freed)

\* a call whose old bag did not fit: the budget was used up on deferred
\* items, the old bag went to the pending list whole, and cur and new were
\* not empty
C39_Witness ==
    /\ lcase.done
    /\ lcase.budget > 0
    /\ lcase.budget < Len(lcase.g0.old) + PendingSize(lcase.g0.pending)
    /\ Len(lcase.freed) = lcase.budget
    /\ lcase.g0.old # <<>>
    /\ Items(lcase.g0.old) \subseteq PendingItems(lcase.g.pending)
    /\ lcase.g.old # <<>> /\ lcase.g.cur # <<>>

(* ------------------------------ SegSpmc -------------------------------- *)
SpmcAddrs == 1..MaxSpmcSegs
SpmcValues == 1..MaxSpmcPush
Producer == 1
Consumers == Threads \ {Producer}

\* Segment::new: low and high 0, next null, no slot written
NewSpmcSegment ==
    [low |-> 0, high |-> 0, next |-> Null,
     data |-> [k \in 0..(SPMC_SEG_SIZE - 1) |-> 0], made |-> TRUE]

NoSpmcSegment == [NewSpmcSegment EXCEPT !.made = FALSE]

IdleSpmc ==
    [pc |-> "idle", head |-> Null, tail |-> Null, i |-> 0, curhigh |-> 0,
     attempt |-> 0, ret |-> FALSE, calls |-> 0]

\* SegSpmc::new: head and tail designate one empty segment
InitSpmc ==
    /\ InitEpochs(0) /\ InitHeap /\ InitNoSpsc /\ InitGc /\ InitList
    /\ InitGlobal /\ InitBag /\ InitNoLc
    /\ plist = Enrolled(NClients)
    /\ script = [t \in Threads |-> <<>>]
    /\ spmc = [head |-> 1, tail |-> 1,
               seg |-> [a \in SpmcAddrs |->
                          IF a = 1 THEN NewSpmcSegment ELSE NoSpmcSegment],
               unlinked |-> <<>>]
    /\ spmct = [t \in Threads |-> IdleSpmc]
    /\ spmch = [pushed |-> 0, got |-> [t \in Threads |-> <<>>],
                slots |-> <<>>]

SpmcSame == UNCHANGED <<hostVars, bagVars, lcVars>>

\* push: load tail and tail.high, write the value into the slot
SpmcPush(t) ==
    /\ t = Producer
    /\ spmct[t].pc = "idle"
    /\ spmch.pushed < MaxSpmcPush
    /\ LET tail == spmc.tail
           i == spmc.seg[tail].high
       IN /\ i < SPMC_SEG_SIZE
          /\ spmc' = [spmc EXCEPT !.seg[tail].data[i] = spmch.pushed + 1]
          /\ spmct' = [spmct EXCEPT ![t] =
                 [@ EXCEPT !.pc = IF i + 1 = SPMC_SEG_SIZE
                                  THEN "pm_link" ELSE "pm_high",
                           !.tail = tail, !.i = i]]
    /\ UNCHANGED spmch
    /\ SpmcSame

\* push: tail.next.store_and_ref(Owned::new(Segment::new()))
SpmcPushLink(t) ==
    /\ spmct[t].pc = "pm_link"
    /\ \E a \in SpmcAddrs :
          /\ ~spmc.seg[a].made
          /\ \A b \in SpmcAddrs : ~spmc.seg[b].made => a <= b
          /\ spmc' = [spmc EXCEPT !.seg[a] = NewSpmcSegment,
                                  !.seg[spmct[t].tail].next = a]
    /\ spmct' = [spmct EXCEPT ![t].pc = "pm_tail"]
    /\ UNCHANGED spmch
    /\ SpmcSame

\* push: self.tail.store_shared(Some(tail))
SpmcPushTail(t) ==
    /\ spmct[t].pc = "pm_tail"
    /\ spmc' = [spmc EXCEPT !.tail = spmc.seg[spmct[t].tail].next]
    /\ spmct' = [spmct EXCEPT ![t].pc = "pm_high"]
    /\ UNCHANGED spmch
    /\ SpmcSame

\* push: tail.high.store(i + 1, Release)
SpmcPushHigh(t) ==
    /\ spmct[t].pc = "pm_high"
    /\ spmc' = [spmc EXCEPT !.seg[spmct[t].tail].high = spmct[t].i + 1]
    /\ spmct' = [spmct EXCEPT ![t].pc = "idle"]
    /\ spmch' = [spmch EXCEPT !.pushed = @ + 1]
    /\ SpmcSame

\* try_pop: pin and load head
SpmcPop(t) ==
    /\ t \in Consumers
    /\ spmct[t].pc \in {"idle", "pm_head"}
    /\ spmct[t].pc = "idle" => spmct[t].calls < MaxPops
    /\ spmct' = [spmct EXCEPT ![t] =
           [@ EXCEPT !.pc = "pm_curhigh", !.head = spmc.head, !.ret = FALSE,
                     !.calls = IF spmct[t].pc = "idle" THEN @ + 1 ELSE @]]
    /\ UNCHANGED <<spmc, spmch>>
    /\ SpmcSame

\* try_pop: let curhigh = head.high.load(Relaxed)
SpmcPopHigh(t) ==
    /\ spmct[t].pc = "pm_curhigh"
    /\ spmct' = [spmct EXCEPT ![t] =
           [@ EXCEPT !.pc = "pm_low",
                     !.curhigh = spmc.seg[spmct[t].head].high]]
    /\ UNCHANGED <<spmc, spmch>>
    /\ SpmcSame

\* try_pop: load low; break when low >= min(curhigh, SEG_SIZE)
SpmcPopLow(t) ==
    /\ spmct[t].pc = "pm_low"
    /\ spmct' = [spmct EXCEPT ![t].pc =
           IF spmc.seg[spmct[t].head].low >= Min(spmct[t].curhigh, SPMC_SEG_SIZE)
           THEN "pm_next" ELSE "pm_fadd"]
    /\ UNCHANGED <<spmc, spmch>>
    /\ SpmcSame

\* the value try_pop returns: the slot's content is read after
\* try_advance_head
SpmcReturn(t, st) ==
    [st EXCEPT !.got[t] = Append(@, spmc.seg[spmct[t].head].data[spmct[t].attempt]),
               !.slots = Append(@, <<spmct[t].head, spmct[t].attempt>>)]

\* try_pop: if curhigh < SEG_SIZE { head.low.fetch_sub(1, Relaxed) }
Compensates(curhigh) == curhigh < SPMC_SEG_SIZE

\* try_pop: attempt = head.low.fetch_add(1, Acquire); a claim below curhigh
\* takes the slot
SpmcPopFadd(t) ==
    /\ spmct[t].pc = "pm_fadd"
    /\ LET h == spmct[t].head
           attempt == spmc.seg[h].low
       IN /\ spmc' = [spmc EXCEPT !.seg[h].low = attempt + 1]
          /\ spmct' = [spmct EXCEPT ![t] =
                 [@ EXCEPT !.attempt = attempt,
                           !.ret = attempt < spmct[t].curhigh,
                           !.pc = IF attempt < spmct[t].curhigh
                                  THEN IF attempt + 1 = SPMC_SEG_SIZE
                                       THEN "pm_adv" ELSE "pm_ret"
                                  ELSE IF Compensates(spmct[t].curhigh)
                                       THEN "pm_fsub" ELSE "pm_curhigh"]]
    /\ UNCHANGED spmch
    /\ SpmcSame

\* try_pop: return Some(ptr::read(cell))
SpmcPopRet(t) ==
    /\ spmct[t].pc = "pm_ret"
    /\ spmch' = SpmcReturn(t, spmch)
    /\ spmct' = [spmct EXCEPT ![t].pc = "idle"]
    /\ UNCHANGED spmc
    /\ SpmcSame

\* try_pop: head.low.fetch_sub(1, Relaxed)
SpmcPopFsub(t) ==
    /\ spmct[t].pc = "pm_fsub"
    /\ spmc' = [spmc EXCEPT !.seg[spmct[t].head].low = @ - 1]
    /\ spmct' = [spmct EXCEPT ![t].pc = "pm_curhigh"]
    /\ UNCHANGED spmch
    /\ SpmcSame

\* try_pop: if head.next.load(Relaxed).is_none() { return None }
SpmcPopNext(t) ==
    /\ spmct[t].pc = "pm_next"
    /\ spmct' = [spmct EXCEPT ![t].pc =
           IF spmc.seg[spmct[t].head].next = Null THEN "idle" ELSE "pm_low2"]
    /\ UNCHANGED <<spmc, spmch>>
    /\ SpmcSame

\* try_pop: if head.low.load(Relaxed) >= SEG_SIZE { try_advance_head }
SpmcPopLow2(t) ==
    /\ spmct[t].pc = "pm_low2"
    /\ spmct' = [spmct EXCEPT ![t].pc =
           IF spmc.seg[spmct[t].head].low >= SPMC_SEG_SIZE
           THEN "pm_adv" ELSE "pm_head"]
    /\ UNCHANGED <<spmc, spmch>>
    /\ SpmcSame

\* where try_pop goes on after try_advance_head
AfterAdvance(t) == IF spmct[t].ret THEN "pm_ret" ELSE "pm_head"

\* try_advance_head: if let Some(next) = head.next.load(Acquire)
SpmcAdvNext(t) ==
    /\ spmct[t].pc = "pm_adv"
    /\ spmct' = [spmct EXCEPT ![t].pc =
           IF spmc.seg[spmct[t].head].next = Null
           THEN AfterAdvance(t) ELSE "pm_adv_head"]
    /\ UNCHANGED <<spmc, spmch>>
    /\ SpmcSame

\* try_advance_head: if head == self.head.load(Relaxed)
SpmcAdvHead(t) ==
    /\ spmct[t].pc = "pm_adv_head"
    /\ spmct' = [spmct EXCEPT ![t].pc =
           IF spmc.head = spmct[t].head THEN "pm_adv_cas" ELSE AfterAdvance(t)]
    /\ UNCHANGED <<spmc, spmch>>
    /\ SpmcSame

\* try_advance_head: self.head.cas_shared(head, next), then guard.unlinked
SpmcAdvCas(t) ==
    /\ spmct[t].pc = "pm_adv_cas"
    /\ spmc' = IF spmc.head = spmct[t].head
               THEN [spmc EXCEPT !.head = spmc.seg[spmct[t].head].next,
                                 !.unlinked = Append(@, spmct[t].head)]
               ELSE spmc
    /\ spmct' = [spmct EXCEPT ![t].pc = AfterAdvance(t)]
    /\ UNCHANGED spmch
    /\ SpmcSame

NextSpmc ==
    \E t \in Threads :
        \/ SpmcPush(t) \/ SpmcPushLink(t) \/ SpmcPushTail(t) \/ SpmcPushHigh(t)
        \/ SpmcPop(t) \/ SpmcPopHigh(t) \/ SpmcPopLow(t) \/ SpmcPopFadd(t)
        \/ SpmcPopRet(t) \/ SpmcPopFsub(t) \/ SpmcPopNext(t) \/ SpmcPopLow2(t)
        \/ SpmcAdvNext(t) \/ SpmcAdvHead(t) \/ SpmcAdvCas(t)

SpecSpmc == InitSpmc /\ [][NextSpmc]_vars

\* each element of q is smaller than the one after it
RECURSIVE StrictlyIncreasing(_)
StrictlyIncreasing(q) ==
    \/ Len(q) < 2
    \/ /\ q[1] < q[2]
       /\ StrictlyIncreasing(Tail(q))

\* the number of try_pop calls that returned the value v
Returns(v) ==
    LET RECURSIVE Of(_)
        Of(S) == IF S = {} THEN 0
                 ELSE LET t == CHOOSE x \in S : TRUE
                      IN Cardinality({k \in 1..Len(spmch.got[t]) :
                                         spmch.got[t][k] = v}) + Of(S \ {t})
    IN Of(Consumers)

\* no consumer is inside try_pop
SpmcQuiet == \A t \in Consumers : spmct[t].pc = "idle"

\* C40: no two try_pop calls return the same pushed value or read the same
\* slot, the values one consumer receives are strictly increasing, and
\* when no try_pop is running every value older than a returned one has
\* been returned (no slot is skipped).
C40_SpmcExactlyOnce ==
    /\ \A v \in SpmcValues : Returns(v) <= 1
    /\ \A j, k \in 1..Len(spmch.slots) : j # k => spmch.slots[j] # spmch.slots[k]
    /\ \A t \in Consumers : StrictlyIncreasing(spmch.got[t])
    /\ SpmcQuiet =>
          \A v, w \in SpmcValues : (Returns(w) > 0 /\ v < w) => Returns(v) > 0

====
